---- MODULE Spec2Model ----
(***************************************************************************)
(* A model of the tracking-number classification engine:                   *)
(*   tracking_numbers/checksum_validator.py  the check-digit variants      *)
(*   tracking_numbers/definition.py          TrackingNumberDefinition      *)
(*   tracking_numbers/types.py               TrackingNumber and its views  *)
(*   tracking_numbers/__init__.py            the catalog lookups           *)
(*                                                                         *)
(* A Python str is a sequence of one-character strings, an Optional value  *)
(* is None (the empty sequence) or Some(x) (a one-element sequence), and a *)
(* call that can raise yields a record that says whether it raised.        *)
(***************************************************************************)
EXTENDS Integers, Sequences, FiniteSets, TLC

VARIABLES
    catalog,   \* DEFINITIONS: the sequence of TrackingNumberDefinition built so far
    op         \* the last completed call and what it returned or raised

vars == <<catalog, op>>

----------------------------------------------------------------------------
(* Bounds of the model *)

MaxLen == 3          \* longest candidate string handed to test and the lookups
MaxCatalog == 2      \* most Definitions loaded into the catalog
MaxSerialLen == 2    \* longest serial number handed to passes directly
MaxCheckLen == 3     \* longest check-digit string handed to passes directly
MaxDigitLen == 9     \* longest serial number handed to _check_digit, few symbols
MaxSymbolLen == 2    \* longest serial number handed to _check_digit, all symbols
MaxStrip == 2        \* last position a UPS serial number parser can strip

----------------------------------------------------------------------------
(* Python values *)

None == << >>
Some(x) == <<x>>
IsNone(o) == Len(o) = 0
Val(o) == o[1]

\* the value of a dict for a key, dict.get(key): None when the key is missing
Get(d, k) == IF k \in DOMAIN d THEN d[k] ELSE None

\* the characters str(cd) and chr(cd - 10 + ord("A")) render a value with, and
\* the ones the patterns' classes [0-9] and [A-Z] name
Digits == <<"0", "1", "2", "3", "4", "5", "6", "7", "8", "9">>
UpperLetters == <<"A", "B", "C", "D", "E", "F", "G", "H", "I", "J", "K", "L", "M",
                  "N", "O", "P", "Q", "R", "S", "T", "U", "V", "W", "X", "Y", "Z">>

Range(s) == {s[i] : i \in DOMAIN s}

\* the one-character strings of a string
Chars(s) == {SubSeq(s, i, i) : i \in 1..Len(s)}

\* The characters a string can hold here are U+0020 to U+00FF and, of every
\* later block of 256, its upper half (U+xx80 to U+xxFF).  The three tables
\* below say of each of them what Python 3.11 (Unicode 14) says: whether
\* int() reads it as a digit and of what value, whether str.isalpha() holds,
\* and what ord(c.upper()) is.

\* The decimal digits (category Nd), the only characters int() reads as
\* digits: ten consecutive characters from the zero of each script.
DecimalRuns ==
    <<"0123456789",
      "۰۱۲۳۴۵۶۷۸۹",
      "߀߁߂߃߄߅߆߇߈߉",
      "০১২৩৪৫৬৭৮৯",
      "૦૧૨૩૪૫૬૭૮૯",
      "௦௧௨௩௪௫௬௭௮௯",
      "೦೧೨೩೪೫೬೭೮೯",
      "෦෧෨෩෪෫෬෭෮෯",
      "໐໑໒໓໔໕໖໗໘໙",
      "႐႑႒႓႔႕႖႗႘႙",
      "០១២៣៤៥៦៧៨៩",
      "᧐᧑᧒᧓᧔᧕᧖᧗᧘᧙",
      "᪀᪁᪂᪃᪄᪅᪆᪇᪈᪉",
      "᪐᪑᪒᪓᪔᪕᪖᪗᪘᪙",
      "᮰᮱᮲᮳᮴᮵᮶᮷᮸᮹",
      "꣐꣑꣒꣓꣔꣕꣖꣗꣘꣙",
      "꧐꧑꧒꧓꧔꧕꧖꧗꧘꧙",
      "꧰꧱꧲꧳꧴꧵꧶꧷꧸꧹",
      "꯰꯱꯲꯳꯴꯵꯶꯷꯸꯹">>

DecimalPositions == (DOMAIN DecimalRuns) \X (1..10)
DecimalDigits ==
    {SubSeq(DecimalRuns[p[1]], p[2], p[2]) : p \in DecimalPositions}

\* the value int() gives a decimal digit: its place in its script's run
DecimalDigitValue(c) ==
    (CHOOSE p \in DecimalPositions : SubSeq(DecimalRuns[p[1]], p[2], p[2]) = c)[2] - 1

\* The alphabetic characters whose upper() is several characters, as the
\* sharp s whose upper() is "SS": ord() of it raises TypeError.
MultiUpper ==
    <<"ßǰΐΰևẖẗẘẙẚᾀᾁᾂᾃᾄᾅᾆᾇᾈᾉᾊᾋᾌᾍᾎᾏᾐᾑᾒᾓᾔᾕᾖᾗᾘᾙᾚᾛᾜᾝ",
      "ᾞᾟᾠᾡᾢᾣᾤᾥᾦᾧᾨᾩᾪᾫᾬᾭᾮᾯᾲᾳᾴᾶᾷᾼῂῃῄῆῇῌῒΐῖῗῢΰῤῦῧῲ",
      "ῳῴῶῷῼ">>

MultiUpperChars == UNION {Chars(MultiUpper[k]) : k \in DOMAIN MultiUpper}

\* The other alphabetic characters, in runs of consecutive characters whose
\* values ord(c.upper()) - ord("A") + 10 are consecutive too: each entry is
\* the value of the run's first character and the run.
AlphaRuns ==
    <<<<10, "ABCDEFGHIJKLMNOPQRSTUVWXYZ">>,
      <<10, "abcdefghijklmnopqrstuvwxyz">>,
      <<115, "ª">>,
      <<869, "µ">>,
      <<131, "º">>,
      <<137, "ÀÁÂÃÄÅÆÇÈÉÊËÌÍÎÏÐÑÒÓÔÕÖ">>,
      <<161, "ØÙÚÛÜÝÞ">>,
      <<137, "àáâãäåæçèéêëìíîïðñòóôõö">>,
      <<161, "øùúûüýþ">>,
      <<321, "ÿ">>,
      <<524, "ƀ">>,
      <<330, "ƁƂ">>,
      <<331, "ƃ">>,
      <<333, "Ƅ">>,
      <<333, "ƅ">>,
      <<335, "ƆƇ">>,
      <<336, "ƈ">>,
      <<338, "ƉƊƋ">>,
      <<340, "ƌ">>,
      <<342, "ƍƎƏƐƑ">>,
      <<346, "ƒ">>,
      <<348, "ƓƔ">>,
      <<447, "ƕ">>,
      <<351, "ƖƗƘ">>,
      <<353, "ƙ">>,
      <<518, "ƚ">>,
      <<356, "ƛƜƝ">>,
      <<489, "ƞ">>,
      <<360, "ƟƠ">>,
      <<361, "ơ">>,
      <<363, "Ƣ">>,
      <<363, "ƣ">>,
      <<365, "Ƥ">>,
      <<365, "ƥ">>,
      <<367, "ƦƧ">>,
      <<368, "ƨ">>,
      <<370, "ƩƪƫƬ">>,
      <<373, "ƭ">>,
      <<375, "ƮƯ">>,
      <<376, "ư">>,
      <<378, "ƱƲƳ">>,
      <<380, "ƴ">>,
      <<382, "Ƶ">>,
      <<382, "ƶ">>,
      <<384, "ƷƸ">>,
      <<385, "ƹ">>,
      <<387, "ƺƻƼ">>,
      <<389, "ƽ">>,
      <<391, "ƾ">>,
      <<448, "ƿ">>,
      <<393, "ǀǁǂǃǄ">>,
      <<397, "ǅ">>,
      <<397, "ǆ">>,
      <<400, "Ǉ">>,
      <<400, "ǈ">>,
      <<400, "ǉ">>,
      <<403, "Ǌ">>,
      <<403, "ǋ">>,
      <<403, "ǌ">>,
      <<406, "Ǎ">>,
      <<406, "ǎ">>,
      <<408, "Ǐ">>,
      <<408, "ǐ">>,
      <<410, "Ǒ">>,
      <<410, "ǒ">>,
      <<412, "Ǔ">>,
      <<412, "ǔ">>,
      <<414, "Ǖ">>,
      <<414, "ǖ">>,
      <<416, "Ǘ">>,
      <<416, "ǘ">>,
      <<418, "Ǚ">>,
      <<418, "ǚ">>,
      <<420, "Ǜ">>,
      <<420, "ǜ">>,
      <<343, "ǝ">>,
      <<423, "Ǟ">>,
      <<423, "ǟ">>,
      <<425, "Ǡ">>,
      <<425, "ǡ">>,
      <<427, "Ǣ">>,
      <<427, "ǣ">>,
      <<429, "Ǥ">>,
      <<429, "ǥ">>,
      <<431, "Ǧ">>,
      <<431, "ǧ">>,
      <<433, "Ǩ">>,
      <<433, "ǩ">>,
      <<435, "Ǫ">>,
      <<435, "ǫ">>,
      <<437, "Ǭ">>,
      <<437, "ǭ">>,
      <<439, "Ǯ">>,
      <<439, "ǯ">>,
      <<442, "Ǳ">>,
      <<442, "ǲ">>,
      <<442, "ǳ">>,
      <<445, "Ǵ">>,
      <<445, "ǵ">>,
      <<447, "ǶǷǸ">>,
      <<449, "ǹ">>,
      <<451, "Ǻ">>,
      <<451, "ǻ">>,
      <<453, "Ǽ">>,
      <<453, "ǽ">>,
      <<455, "Ǿ">>,
      <<455, "ǿ">>,
      <<367, "ʀ">>,
      <<586, "ʁ">>,
      <<42894, "ʂ">>,
      <<370, "ʃ">>,
      <<589, "ʄʅʆ">>,
      <<42874, "ʇ">>,
      <<375, "ʈ">>,
      <<525, "ʉ">>,
      <<378, "ʊʋ">>,
      <<526, "ʌ">>,
      <<598, "ʍʎʏʐʑ">>,
      <<384, "ʒ">>,
      <<604, "ʓʔʕʖʗʘʙʚʛʜ">>,
      <<42875, "ʝ">>,
      <<42873, "ʞ">>,
      <<616, "ʟʠʡʢʣʤʥʦʧʨʩʪʫʬʭʮʯʰʱʲʳʴʵʶʷʸʹʺʻʼʽʾʿˀˁ">>,
      <<655, "ˆˇˈˉˊˋˌˍˎˏːˑ">>,
      <<681, "ˠˡˢˣˤ">>,
      <<693, "ˬ">>,
      <<695, "ˮ">>,
      <<847, "Ά">>,
      <<849, "ΈΉΊ">>,
      <<853, "Ό">>,
      <<855, "ΎΏ">>,
      <<858, "ΑΒΓΔΕΖΗΘΙΚΛΜΝΞΟΠΡ">>,
      <<876, "ΣΤΥΦΧΨΩΪΫ">>,
      <<847, "ά">>,
      <<849, "έήί">>,
      <<858, "αβγδεζηθικλμνξοπρ">>,
      <<876, "ς">>,
      <<876, "στυφχψωϊϋ">>,
      <<853, "ό">>,
      <<855, "ύώ">>,
      <<920, "Ϗ">>,
      <<859, "ϐ">>,
      <<865, "ϑ">>,
      <<923, "ϒϓϔ">>,
      <<879, "ϕ">>,
      <<873, "ϖ">>,
      <<920, "ϗ">>,
      <<929, "Ϙ">>,
      <<929, "ϙ">>,
      <<931, "Ϛ">>,
      <<931, "ϛ">>,
      <<933, "Ϝ">>,
      <<933, "ϝ">>,
      <<935, "Ϟ">>,
      <<935, "ϟ">>,
      <<937, "Ϡ">>,
      <<937, "ϡ">>,
      <<939, "Ϣ">>,
      <<939, "ϣ">>,
      <<941, "Ϥ">>,
      <<941, "ϥ">>,
      <<943, "Ϧ">>,
      <<943, "ϧ">>,
      <<945, "Ϩ">>,
      <<945, "ϩ">>,
      <<947, "Ϫ">>,
      <<947, "ϫ">>,
      <<949, "Ϭ">>,
      <<949, "ϭ">>,
      <<951, "Ϯ">>,
      <<951, "ϯ">>,
      <<867, "ϰ">>,
      <<874, "ϱ">>,
      <<962, "ϲ">>,
      <<840, "ϳ">>,
      <<957, "ϴ">>,
      <<862, "ϵ">>,
      <<960, "Ϸ">>,
      <<960, "ϸ">>,
      <<962, "ϹϺ">>,
      <<963, "ϻ">>,
      <<965, "ϼϽϾϿ">>,
      <<1097, "Ҁ">>,
      <<1097, "ҁ">>,
      <<1107, "Ҋ">>,
      <<1107, "ҋ">>,
      <<1109, "Ҍ">>,
      <<1109, "ҍ">>,
      <<1111, "Ҏ">>,
      <<1111, "ҏ">>,
      <<1113, "Ґ">>,
      <<1113, "ґ">>,
      <<1115, "Ғ">>,
      <<1115, "ғ">>,
      <<1117, "Ҕ">>,
      <<1117, "ҕ">>,
      <<1119, "Җ">>,
      <<1119, "җ">>,
      <<1121, "Ҙ">>,
      <<1121, "ҙ">>,
      <<1123, "Қ">>,
      <<1123, "қ">>,
      <<1125, "Ҝ">>,
      <<1125, "ҝ">>,
      <<1127, "Ҟ">>,
      <<1127, "ҟ">>,
      <<1129, "Ҡ">>,
      <<1129, "ҡ">>,
      <<1131, "Ң">>,
      <<1131, "ң">>,
      <<1133, "Ҥ">>,
      <<1133, "ҥ">>,
      <<1135, "Ҧ">>,
      <<1135, "ҧ">>,
      <<1137, "Ҩ">>,
      <<1137, "ҩ">>,
      <<1139, "Ҫ">>,
      <<1139, "ҫ">>,
      <<1141, "Ҭ">>,
      <<1141, "ҭ">>,
      <<1143, "Ү">>,
      <<1143, "ү">>,
      <<1145, "Ұ">>,
      <<1145, "ұ">>,
      <<1147, "Ҳ">>,
      <<1147, "ҳ">>,
      <<1149, "Ҵ">>,
      <<1149, "ҵ">>,
      <<1151, "Ҷ">>,
      <<1151, "ҷ">>,
      <<1153, "Ҹ">>,
      <<1153, "ҹ">>,
      <<1155, "Һ">>,
      <<1155, "һ">>,
      <<1157, "Ҽ">>,
      <<1157, "ҽ">>,
      <<1159, "Ҿ">>,
      <<1159, "ҿ">>,
      <<1161, "ӀӁ">>,
      <<1162, "ӂ">>,
      <<1164, "Ӄ">>,
      <<1164, "ӄ">>,
      <<1166, "Ӆ">>,
      <<1166, "ӆ">>,
      <<1168, "Ӈ">>,
      <<1168, "ӈ">>,
      <<1170, "Ӊ">>,
      <<1170, "ӊ">>,
      <<1172, "Ӌ">>,
      <<1172, "ӌ">>,
      <<1174, "Ӎ">>,
      <<1174, "ӎ">>,
      <<1161, "ӏ">>,
      <<1177, "Ӑ">>,
      <<1177, "ӑ">>,
      <<1179, "Ӓ">>,
      <<1179, "ӓ">>,
      <<1181, "Ӕ">>,
      <<1181, "ӕ">>,
      <<1183, "Ӗ">>,
      <<1183, "ӗ">>,
      <<1185, "Ә">>,
      <<1185, "ә">>,
      <<1187, "Ӛ">>,
      <<1187, "ӛ">>,
      <<1189, "Ӝ">>,
      <<1189, "ӝ">>,
      <<1191, "Ӟ">>,
      <<1191, "ӟ">>,
      <<1193, "Ӡ">>,
      <<1193, "ӡ">>,
      <<1195, "Ӣ">>,
      <<1195, "ӣ">>,
      <<1197, "Ӥ">>,
      <<1197, "ӥ">>,
      <<1199, "Ӧ">>,
      <<1199, "ӧ">>,
      <<1201, "Ө">>,
      <<1201, "ө">>,
      <<1203, "Ӫ">>,
      <<1203, "ӫ">>,
      <<1205, "Ӭ">>,
      <<1205, "ӭ">>,
      <<1207, "Ӯ">>,
      <<1207, "ӯ">>,
      <<1209, "Ӱ">>,
      <<1209, "ӱ">>,
      <<1211, "Ӳ">>,
      <<1211, "ӳ">>,
      <<1213, "Ӵ">>,
      <<1213, "ӵ">>,
      <<1215, "Ӷ">>,
      <<1215, "ӷ">>,
      <<1217, "Ӹ">>,
      <<1217, "ӹ">>,
      <<1219, "Ӻ">>,
      <<1219, "ӻ">>,
      <<1221, "Ӽ">>,
      <<1221, "ӽ">>,
      <<1223, "Ӿ">>,
      <<1223, "ӿ">>,
      <<1305, "րցւփքօֆ">>,
      <<1361, "ֈ">>,
      <<1433, "אבגדהוזחטיךכלםמןנסעףפץצקרשת">>,
      <<1464, "ׯװױײ">>,
      <<1609, "ڀځڂڃڄڅچڇڈډڊڋڌڍڎڏڐڑڒړڔڕږڗژڙښڛڜڝڞڟڠڡڢڣڤڥڦڧڨکڪګڬڭڮگڰڱڲڳڴڵڶڷڸڹںڻڼڽھڿۀہۂۃۄۅۆۇۈۉۊۋیۍێۏېۑےۓ">>,
      <<1694, "ە">>,
      <<1710, "ۥۦ">>,
      <<1719, "ۮۯ">>,
      <<1731, "ۺۻۼ">>,
      <<1736, "ۿ">>,
      <<1865, "ހށނރބޅކއވމފދތލގޏސޑޒޓޔޕޖޗޘޙޚޛޜޝޞޟޠޡޢޣޤޥ">>,
      <<1914, "ޱ">>,
      <<1939, "ߊߋߌߍߎߏߐߑߒߓߔߕߖߗߘߙߚߛߜߝߞߟߠߡߢߣߤߥߦߧߨߩߪ">>,
      <<1981, "ߴߵ">>,
      <<1987, "ߺ">>,
      <<2121, "ࢀࢁࢂࢃࢄࢅࢆࢇ">>,
      <<2130, "ࢉࢊࢋࢌࢍࢎ">>,
      <<2153, "ࢠࢡࢢࢣࢤࢥࢦࢧࢨࢩࢪࢫࢬࢭࢮࢯࢰࢱࢲࢳࢴࢵࢶࢷࢸࢹࢺࢻࢼࢽࢾࢿࣀࣁࣂࣃࣄࣅࣆࣇࣈࣉ">>,
      <<2377, "ঀ">>,
      <<2382, "অআইঈউঊঋঌ">>,
      <<2392, "এঐ">>,
      <<2396, "ওঔকখগঘঙচছজঝঞটঠডঢণতথদধন">>,
      <<2419, "পফবভমযর">>,
      <<2427, "ল">>,
      <<2431, "শষসহ">>,
      <<2438, "ঽ">>,
      <<2455, "ৎ">>,
      <<2469, "ড়ঢ়">>,
      <<2472, "য়ৠৡ">>,
      <<2489, "ৰৱ">>,
      <<2501, "ৼ">>,
      <<2638, "અઆઇઈઉઊઋઌઍ">>,
      <<2648, "એઐઑ">>,
      <<2652, "ઓઔકખગઘઙચછજઝઞટઠડઢણતથદધન">>,
      <<2675, "પફબભમયર">>,
      <<2683, "લળ">>,
      <<2686, "વશષસહ">>,
      <<2694, "ઽ">>,
      <<2713, "ૐ">>,
      <<2729, "ૠૡ">>,
      <<2754, "ૹ">>,
      <<2892, "ஃ">>,
      <<2894, "அஆஇஈஉஊ">>,
      <<2903, "எஏஐ">>,
      <<2907, "ஒஓஔக">>,
      <<2914, "ஙச">>,
      <<2917, "ஜ">>,
      <<2919, "ஞட">>,
      <<2924, "ணத">>,
      <<2929, "நனப">>,
      <<2935, "மயரறலளழவஶஷஸஹ">>,
      <<2969, "ௐ">>,
      <<3145, "ಀ">>,
      <<3150, "ಅಆಇಈಉಊಋಌ">>,
      <<3159, "ಎಏಐ">>,
      <<3163, "ಒಓಔಕಖಗಘಙಚಛಜಝಞಟಠಡಢಣತಥದಧನ">>,
      <<3187, "ಪಫಬಭಮಯರಱಲಳ">>,
      <<3198, "ವಶಷಸಹ">>,
      <<3206, "ಽ">>,
      <<3238, "ೝೞ">>,
      <<3241, "ೠೡ">>,
      <<3258, "ೱೲ">>,
      <<3406, "අආඇඈඉඊඋඌඍඎඏඐඑඒඓඔඕඖ">>,
      <<3427, "කඛගඝඞඟචඡජඣඤඥඦටඨඩඪණඬතථදධන">>,
      <<3452, "ඳපඵබභමඹයර">>,
      <<3462, "ල">>,
      <<3465, "වශෂසහළෆ">>,
      <<3658, "ກຂ">>,
      <<3661, "ຄ">>,
      <<3663, "ຆງຈຉຊ">>,
      <<3669, "ຌຍຎຏຐຑຒຓດຕຖທຘນບປຜຝພຟຠມຢຣ">>,
      <<3694, "ລ">>,
      <<3696, "ວຨຩສຫຬອຮຯະ">>,
      <<3707, "າຳ">>,
      <<3718, "ຽ">>,
      <<3721, "ເແໂໃໄ">>,
      <<3727, "ໆ">>,
      <<3749, "ໜໝໞໟ">>,
      <<3921, "ྈྉྊྋྌ">>,
      <<4169, "ႀႁ">>,
      <<4183, "ႎ">>,
      <<4201, "ႠႡႢႣႤႥႦႧႨႩႪႫႬႭႮႯႰႱႲႳႴႵႶႷႸႹႺႻႼႽႾႿჀჁჂჃჄჅ">>,
      <<4240, "Ⴧ">>,
      <<4246, "Ⴭ">>,
      <<7257, "აბგდევზთიკლმნოპჟრსტუფქღყშჩცძწჭხჯჰჱჲჳჴჵჶჷჸჹჺ">>,
      <<4293, "ჼ">>,
      <<7302, "ჽჾჿ">>,
      <<4425, "ᆀᆁᆂᆃᆄᆅᆆᆇᆈᆉᆊᆋᆌᆍᆎᆏᆐᆑᆒᆓᆔᆕᆖᆗᆘᆙᆚᆛᆜᆝᆞᆟᆠᆡᆢᆣᆤᆥᆦᆧᆨᆩᆪᆫᆬᆭᆮᆯᆰᆱᆲᆳᆴᆵᆶᆷᆸᆹᆺᆻᆼᆽᆾᆿᇀᇁᇂᇃᇄᇅᇆᇇᇈᇉᇊᇋᇌᇍᇎᇏᇐᇑᇒᇓᇔᇕᇖᇗᇘᇙᇚᇛᇜᇝᇞᇟᇠᇡᇢᇣᇤᇥᇦᇧᇨᇩᇪᇫᇬᇭᇮᇯᇰᇱᇲᇳᇴᇵᇶᇷᇸᇹᇺᇻᇼᇽᇾᇿ">>,
      <<4681, "ኀኁኂኃኄኅኆኇኈ">>,
      <<4691, "ኊኋኌኍ">>,
      <<4697, "ነኑኒናኔንኖኗኘኙኚኛኜኝኞኟአኡኢኣኤእኦኧከኩኪካኬክኮኯኰ">>,
      <<4731, "ኲኳኴኵ">>,
      <<4737, "ኸኹኺኻኼኽኾ">>,
      <<4745, "ዀ">>,
      <<4747, "ዂዃዄዅ">>,
      <<4753, "ወዉዊዋዌውዎዏዐዑዒዓዔዕዖ">>,
      <<4769, "ዘዙዚዛዜዝዞዟዠዡዢዣዤዥዦዧየዩዪያዬይዮዯደዱዲዳዴድዶዷዸዹዺዻዼዽዾዿ">>,
      <<4937, "ᎀᎁᎂᎃᎄᎅᎆᎇᎈᎉᎊᎋᎌᎍᎎᎏ">>,
      <<4969, "ᎠᎡᎢᎣᎤᎥᎦᎧᎨᎩᎪᎫᎬᎭᎮᎯᎰᎱᎲᎳᎴᎵᎶᎷᎸᎹᎺᎻᎼᎽᎾᎿᏀᏁᏂᏃᏄᏅᏆᏇᏈᏉᏊᏋᏌᏍᏎᏏᏐᏑᏒᏓᏔᏕᏖᏗᏘᏙᏚᏛᏜᏝᏞᏟᏠᏡᏢᏣᏤᏥᏦᏧᏨᏩᏪᏫᏬᏭᏮᏯᏰᏱᏲᏳᏴᏵ">>,
      <<5049, "ᏸᏹᏺᏻᏼᏽ">>,
      <<5193, "ᒀᒁᒂᒃᒄᒅᒆᒇᒈᒉᒊᒋᒌᒍᒎᒏᒐᒑᒒᒓᒔᒕᒖᒗᒘᒙᒚᒛᒜᒝᒞᒟᒠᒡᒢᒣᒤᒥᒦᒧᒨᒩᒪᒫᒬᒭᒮᒯᒰᒱᒲᒳᒴᒵᒶᒷᒸᒹᒺᒻᒼᒽᒾᒿᓀᓁᓂᓃᓄᓅᓆᓇᓈᓉᓊᓋᓌᓍᓎᓏᓐᓑᓒᓓᓔᓕᓖᓗᓘᓙᓚᓛᓜᓝᓞᓟᓠᓡᓢᓣᓤᓥᓦᓧᓨᓩᓪᓫᓬᓭᓮᓯᓰᓱᓲᓳᓴᓵᓶᓷᓸᓹᓺᓻᓼᓽᓾᓿ">>,
      <<5449, "ᖀᖁᖂᖃᖄᖅᖆᖇᖈᖉᖊᖋᖌᖍᖎᖏᖐᖑᖒᖓᖔᖕᖖᖗᖘᖙᖚᖛᖜᖝᖞᖟᖠᖡᖢᖣᖤᖥᖦᖧᖨᖩᖪᖫᖬᖭᖮᖯᖰᖱᖲᖳᖴᖵᖶᖷᖸᖹᖺᖻᖼᖽᖾᖿᗀᗁᗂᗃᗄᗅᗆᗇᗈᗉᗊᗋᗌᗍᗎᗏᗐᗑᗒᗓᗔᗕᗖᗗᗘᗙᗚᗛᗜᗝᗞᗟᗠᗡᗢᗣᗤᗥᗦᗧᗨᗩᗪᗫᗬᗭᗮᗯᗰᗱᗲᗳᗴᗵᗶᗷᗸᗹᗺᗻᗼᗽᗾᗿ">>,
      <<5706, "ᚁᚂᚃᚄᚅᚆᚇᚈᚉᚊᚋᚌᚍᚎᚏᚐᚑᚒᚓᚔᚕᚖᚗᚘᚙᚚ">>,
      <<5737, "ᚠᚡᚢᚣᚤᚥᚦᚧᚨᚩᚪᚫᚬᚭᚮᚯᚰᚱᚲᚳᚴᚵᚶᚷᚸᚹᚺᚻᚼᚽᚾᚿᛀᛁᛂᛃᛄᛅᛆᛇᛈᛉᛊᛋᛌᛍᛎᛏᛐᛑᛒᛓᛔᛕᛖᛗᛘᛙᛚᛛᛜᛝᛞᛟᛠᛡᛢᛣᛤᛥᛦᛧᛨᛩᛪ">>,
      <<5818, "ᛱᛲᛳᛴᛵᛶᛷᛸ">>,
      <<5961, "កខគឃងចឆជឈញដឋឌឍណតថទធនបផពភមយរលវឝឞសហឡអឣឤឥឦឧឨឩឪឫឬឭឮឯឰឱឲឳ">>,
      <<6048, "ៗ">>,
      <<6053, "ៜ">>,
      <<6217, "ᢀᢁᢂᢃᢄ">>,
      <<6224, "ᢇᢈᢉᢊᢋᢌᢍᢎᢏᢐᢑᢒᢓᢔᢕᢖᢗᢘᢙᢚᢛᢜᢝᢞᢟᢠᢡᢢᢣᢤᢥᢦᢧᢨ">>,
      <<6259, "ᢪ">>,
      <<6265, "ᢰᢱᢲᢳᢴᢵᢶᢷᢸᢹᢺᢻᢼᢽᢾᢿᣀᣁᣂᣃᣄᣅᣆᣇᣈᣉᣊᣋᣌᣍᣎᣏᣐᣑᣒᣓᣔᣕᣖᣗᣘᣙᣚᣛᣜᣝᣞᣟᣠᣡᣢᣣᣤᣥᣦᣧᣨᣩᣪᣫᣬᣭᣮᣯᣰᣱᣲᣳᣴᣵ">>,
      <<6473, "ᦀᦁᦂᦃᦄᦅᦆᦇᦈᦉᦊᦋᦌᦍᦎᦏᦐᦑᦒᦓᦔᦕᦖᦗᦘᦙᦚᦛᦜᦝᦞᦟᦠᦡᦢᦣᦤᦥᦦᦧᦨᦩᦪᦫ">>,
      <<6521, "ᦰᦱᦲᦳᦴᦵᦶᦷᦸᦹᦺᦻᦼᦽᦾᦿᧀᧁᧂᧃᧄᧅᧆᧇᧈᧉ">>,
      <<6768, "ᪧ">>,
      <<6988, "ᮃᮄᮅᮆᮇᮈᮉᮊᮋᮌᮍᮎᮏᮐᮑᮒᮓᮔᮕᮖᮗᮘᮙᮚᮛᮜᮝᮞᮟᮠ">>,
      <<7031, "ᮮᮯ">>,
      <<7043, "ᮺᮻᮼᮽᮾᮿᯀᯁᯂᯃᯄᯅᯆᯇᯈᯉᯊᯋᯌᯍᯎᯏᯐᯑᯒᯓᯔᯕᯖᯗᯘᯙᯚᯛᯜᯝᯞᯟᯠᯡᯢᯣᯤᯥ">>,
      <<987, "ᲀ">>,
      <<989, "ᲁ">>,
      <<999, "ᲂ">>,
      <<1002, "ᲃᲄ">>,
      <<1003, "ᲅ">>,
      <<1011, "ᲆ">>,
      <<1067, "ᲇ">>,
      <<42515, "ᲈ">>,
      <<7257, "ᲐᲑᲒᲓᲔᲕᲖᲗᲘᲙᲚᲛᲜᲝᲞᲟᲠᲡᲢᲣᲤᲥᲦᲧᲨᲩᲪᲫᲬᲭᲮᲯᲰᲱᲲᲳᲴᲵᲶᲷᲸᲹᲺ">>,
      <<7302, "ᲽᲾᲿ">>,
      <<7346, "ᳩᳪᳫᳬ">>,
      <<7351, "ᳮᳯᳰᳱᳲᳳ">>,
      <<7358, "ᳵᳶ">>,
      <<7363, "ᳺ">>,
      <<7497, "ᶀᶁᶂᶃᶄᶅᶆᶇᶈᶉᶊᶋᶌᶍ">>,
      <<42895, "ᶎ">>,
      <<7512, "ᶏᶐᶑᶒᶓᶔᶕᶖᶗᶘᶙᶚᶛᶜᶝᶞᶟᶠᶡᶢᶣᶤᶥᶦᶧᶨᶩᶪᶫᶬᶭᶮᶯᶰᶱᶲᶳᶴᶵᶶᶷᶸᶹᶺᶻᶼᶽᶾᶿ">>,
      <<7753, "Ẁ">>,
      <<7753, "ẁ">>,
      <<7755, "Ẃ">>,
      <<7755, "ẃ">>,
      <<7757, "Ẅ">>,
      <<7757, "ẅ">>,
      <<7759, "Ẇ">>,
      <<7759, "ẇ">>,
      <<7761, "Ẉ">>,
      <<7761, "ẉ">>,
      <<7763, "Ẋ">>,
      <<7763, "ẋ">>,
      <<7765, "Ẍ">>,
      <<7765, "ẍ">>,
      <<7767, "Ẏ">>,
      <<7767, "ẏ">>,
      <<7769, "Ẑ">>,
      <<7769, "ẑ">>,
      <<7771, "Ẓ">>,
      <<7771, "ẓ">>,
      <<7773, "Ẕ">>,
      <<7773, "ẕ">>,
      <<7721, "ẛ">>,
      <<7781, "ẜẝẞẟẠ">>,
      <<7785, "ạ">>,
      <<7787, "Ả">>,
      <<7787, "ả">>,
      <<7789, "Ấ">>,
      <<7789, "ấ">>,
      <<7791, "Ầ">>,
      <<7791, "ầ">>,
      <<7793, "Ẩ">>,
      <<7793, "ẩ">>,
      <<7795, "Ẫ">>,
      <<7795, "ẫ">>,
      <<7797, "Ậ">>,
      <<7797, "ậ">>,
      <<7799, "Ắ">>,
      <<7799, "ắ">>,
      <<7801, "Ằ">>,
      <<7801, "ằ">>,
      <<7803, "Ẳ">>,
      <<7803, "ẳ">>,
      <<7805, "Ẵ">>,
      <<7805, "ẵ">>,
      <<7807, "Ặ">>,
      <<7807, "ặ">>,
      <<7809, "Ẹ">>,
      <<7809, "ẹ">>,
      <<7811, "Ẻ">>,
      <<7811, "ẻ">>,
      <<7813, "Ẽ">>,
      <<7813, "ẽ">>,
      <<7815, "Ế">>,
      <<7815, "ế">>,
      <<7817, "Ề">>,
      <<7817, "ề">>,
      <<7819, "Ể">>,
      <<7819, "ể">>,
      <<7821, "Ễ">>,
      <<7821, "ễ">>,
      <<7823, "Ệ">>,
      <<7823, "ệ">>,
      <<7825, "Ỉ">>,
      <<7825, "ỉ">>,
      <<7827, "Ị">>,
      <<7827, "ị">>,
      <<7829, "Ọ">>,
      <<7829, "ọ">>,
      <<7831, "Ỏ">>,
      <<7831, "ỏ">>,
      <<7833, "Ố">>,
      <<7833, "ố">>,
      <<7835, "Ồ">>,
      <<7835, "ồ">>,
      <<7837, "Ổ">>,
      <<7837, "ổ">>,
      <<7839, "Ỗ">>,
      <<7839, "ỗ">>,
      <<7841, "Ộ">>,
      <<7841, "ộ">>,
      <<7843, "Ớ">>,
      <<7843, "ớ">>,
      <<7845, "Ờ">>,
      <<7845, "ờ">>,
      <<7847, "Ở">>,
      <<7847, "ở">>,
      <<7849, "Ỡ">>,
      <<7849, "ỡ">>,
      <<7851, "Ợ">>,
      <<7851, "ợ">>,
      <<7853, "Ụ">>,
      <<7853, "ụ">>,
      <<7855, "Ủ">>,
      <<7855, "ủ">>,
      <<7857, "Ứ">>,
      <<7857, "ứ">>,
      <<7859, "Ừ">>,
      <<7859, "ừ">>,
      <<7861, "Ử">>,
      <<7861, "ử">>,
      <<7863, "Ữ">>,
      <<7863, "ữ">>,
      <<7865, "Ự">>,
      <<7865, "ự">>,
      <<7867, "Ỳ">>,
      <<7867, "ỳ">>,
      <<7869, "Ỵ">>,
      <<7869, "ỵ">>,
      <<7871, "Ỷ">>,
      <<7871, "ỷ">>,
      <<7873, "Ỹ">>,
      <<7873, "ỹ">>,
      <<7875, "Ỻ">>,
      <<7875, "ỻ">>,
      <<7877, "Ỽ">>,
      <<7877, "ỽ">>,
      <<7879, "Ỿ">>,
      <<7879, "ỿ">>,
      <<8065, "ᾰᾱ">>,
      <<8065, "ᾸᾹᾺΆ">>,
      <<866, "ι">>,
      <<8081, "ῈΈῊΉ">>,
      <<8097, "ῐῑ">>,
      <<8097, "ῘῙῚΊ">>,
      <<8113, "ῠῡ">>,
      <<8117, "ῥ">>,
      <<8113, "ῨῩῪΎῬ">>,
      <<8129, "ῸΌῺΏ">>,
      <<8281, "ₐₑₒₓₔₕₖₗₘₙₚₛₜ">>,
      <<8524, "Ↄ">>,
      <<8524, "ↄ">>,
      <<11337, "Ⲁ">>,
      <<11337, "ⲁ">>,
      <<11339, "Ⲃ">>,
      <<11339, "ⲃ">>,
      <<11341, "Ⲅ">>,
      <<11341, "ⲅ">>,
      <<11343, "Ⲇ">>,
      <<11343, "ⲇ">>,
      <<11345, "Ⲉ">>,
      <<11345, "ⲉ">>,
      <<11347, "Ⲋ">>,
      <<11347, "ⲋ">>,
      <<11349, "Ⲍ">>,
      <<11349, "ⲍ">>,
      <<11351, "Ⲏ">>,
      <<11351, "ⲏ">>,
      <<11353, "Ⲑ">>,
      <<11353, "ⲑ">>,
      <<11355, "Ⲓ">>,
      <<11355, "ⲓ">>,
      <<11357, "Ⲕ">>,
      <<11357, "ⲕ">>,
      <<11359, "Ⲗ">>,
      <<11359, "ⲗ">>,
      <<11361, "Ⲙ">>,
      <<11361, "ⲙ">>,
      <<11363, "Ⲛ">>,
      <<11363, "ⲛ">>,
      <<11365, "Ⲝ">>,
      <<11365, "ⲝ">>,
      <<11367, "Ⲟ">>,
      <<11367, "ⲟ">>,
      <<11369, "Ⲡ">>,
      <<11369, "ⲡ">>,
      <<11371, "Ⲣ">>,
      <<11371, "ⲣ">>,
      <<11373, "Ⲥ">>,
      <<11373, "ⲥ">>,
      <<11375, "Ⲧ">>,
      <<11375, "ⲧ">>,
      <<11377, "Ⲩ">>,
      <<11377, "ⲩ">>,
      <<11379, "Ⲫ">>,
      <<11379, "ⲫ">>,
      <<11381, "Ⲭ">>,
      <<11381, "ⲭ">>,
      <<11383, "Ⲯ">>,
      <<11383, "ⲯ">>,
      <<11385, "Ⲱ">>,
      <<11385, "ⲱ">>,
      <<11387, "Ⲳ">>,
      <<11387, "ⲳ">>,
      <<11389, "Ⲵ">>,
      <<11389, "ⲵ">>,
      <<11391, "Ⲷ">>,
      <<11391, "ⲷ">>,
      <<11393, "Ⲹ">>,
      <<11393, "ⲹ">>,
      <<11395, "Ⲻ">>,
      <<11395, "ⲻ">>,
      <<11397, "Ⲽ">>,
      <<11397, "ⲽ">>,
      <<11399, "Ⲿ">>,
      <<11399, "ⲿ">>,
      <<11401, "Ⳁ">>,
      <<11401, "ⳁ">>,
      <<11403, "Ⳃ">>,
      <<11403, "ⳃ">>,
      <<11405, "Ⳅ">>,
      <<11405, "ⳅ">>,
      <<11407, "Ⳇ">>,
      <<11407, "ⳇ">>,
      <<11409, "Ⳉ">>,
      <<11409, "ⳉ">>,
      <<11411, "Ⳋ">>,
      <<11411, "ⳋ">>,
      <<11413, "Ⳍ">>,
      <<11413, "ⳍ">>,
      <<11415, "Ⳏ">>,
      <<11415, "ⳏ">>,
      <<11417, "Ⳑ">>,
      <<11417, "ⳑ">>,
      <<11419, "Ⳓ">>,
      <<11419, "ⳓ">>,
      <<11421, "Ⳕ">>,
      <<11421, "ⳕ">>,
      <<11423, "Ⳗ">>,
      <<11423, "ⳗ">>,
      <<11425, "Ⳙ">>,
      <<11425, "ⳙ">>,
      <<11427, "Ⳛ">>,
      <<11427, "ⳛ">>,
      <<11429, "Ⳝ">>,
      <<11429, "ⳝ">>,
      <<11431, "Ⳟ">>,
      <<11431, "ⳟ">>,
      <<11433, "Ⳡ">>,
      <<11433, "ⳡ">>,
      <<11435, "Ⳣ">>,
      <<11435, "ⳣ">>,
      <<11437, "ⳤ">>,
      <<11444, "Ⳬ">>,
      <<11444, "ⳬ">>,
      <<11446, "Ⳮ">>,
      <<11446, "ⳮ">>,
      <<11451, "Ⳳ">>,
      <<11451, "ⳳ">>,
      <<11593, "ⶀⶁⶂⶃⶄⶅⶆⶇⶈⶉⶊⶋⶌⶍⶎⶏⶐⶑⶒⶓⶔⶕⶖ">>,
      <<11625, "ⶠⶡⶢⶣⶤⶥⶦ">>,
      <<11633, "ⶨⶩⶪⶫⶬⶭⶮ">>,
      <<11641, "ⶰⶱⶲⶳⶴⶵⶶ">>,
      <<11649, "ⶸⶹⶺⶻⶼⶽⶾ">>,
      <<11657, "ⷀⷁⷂⷃⷄⷅⷆ">>,
      <<11665, "ⷈⷉⷊⷋⷌⷍⷎ">>,
      <<11673, "ⷐⷑⷒⷓⷔⷕⷖ">>,
      <<11681, "ⷘⷙⷚⷛⷜⷝⷞ">>,
      <<12361, "むめもゃやゅゆょよらりるれろゎわゐゑをんゔゕゖ">>,
      <<12390, "ゝゞゟ">>,
      <<12394, "ァアィイゥウェエォオカガキギクグケゲコゴサザシジスズセゼソゾタダチヂッツヅテデトドナニヌネノハバパヒビピフブプヘベペホボポマミムメモャヤュユョヨラリルレロヮワヰヱヲンヴヵヶヷヸヹヺ">>,
      <<12485, "ーヽヾヿ">>,
      <<12617, "ㆀㆁㆂㆃㆄㆅㆆㆇㆈㆉㆊㆋㆌㆍㆎ">>,
      <<12649, "ㆠㆡㆢㆣㆤㆥㆦㆧㆨㆩㆪㆫㆬㆭㆮㆯㆰㆱㆲㆳㆴㆵㆶㆷㆸㆹㆺㆻㆼㆽㆾㆿ">>,
      <<12729, "ㇰㇱㇲㇳㇴㇵㇶㇷㇸㇹㇺㇻㇼㇽㇾㇿ">>,
      <<13385, "㒀㒁㒂㒃㒄㒅㒆㒇㒈㒉㒊㒋㒌㒍㒎㒏㒐㒑㒒㒓㒔㒕㒖㒗㒘㒙㒚㒛㒜㒝㒞㒟㒠㒡㒢㒣㒤㒥㒦㒧㒨㒩㒪㒫㒬㒭㒮㒯㒰㒱㒲㒳㒴㒵㒶㒷㒸㒹㒺㒻㒼㒽㒾㒿㓀㓁㓂㓃㓄㓅㓆㓇㓈㓉㓊㓋㓌㓍㓎㓏㓐㓑㓒㓓㓔㓕㓖㓗㓘㓙㓚㓛㓜㓝㓞㓟㓠㓡㓢㓣㓤㓥㓦㓧㓨㓩㓪㓫㓬㓭㓮㓯㓰㓱㓲㓳㓴㓵㓶㓷㓸㓹㓺㓻㓼㓽㓾㓿">>,
      <<13641, "㖀㖁㖂㖃㖄㖅㖆㖇㖈㖉㖊㖋㖌㖍㖎㖏㖐㖑㖒㖓㖔㖕㖖㖗㖘㖙㖚㖛㖜㖝㖞㖟㖠㖡㖢㖣㖤㖥㖦㖧㖨㖩㖪㖫㖬㖭㖮㖯㖰㖱㖲㖳㖴㖵㖶㖷㖸㖹㖺㖻㖼㖽㖾㖿㗀㗁㗂㗃㗄㗅㗆㗇㗈㗉㗊㗋㗌㗍㗎㗏㗐㗑㗒㗓㗔㗕㗖㗗㗘㗙㗚㗛㗜㗝㗞㗟㗠㗡㗢㗣㗤㗥㗦㗧㗨㗩㗪㗫㗬㗭㗮㗯㗰㗱㗲㗳㗴㗵㗶㗷㗸㗹㗺㗻㗼㗽㗾㗿">>,
      <<13897, "㚀㚁㚂㚃㚄㚅㚆㚇㚈㚉㚊㚋㚌㚍㚎㚏㚐㚑㚒㚓㚔㚕㚖㚗㚘㚙㚚㚛㚜㚝㚞㚟㚠㚡㚢㚣㚤㚥㚦㚧㚨㚩㚪㚫㚬㚭㚮㚯㚰㚱㚲㚳㚴㚵㚶㚷㚸㚹㚺㚻㚼㚽㚾㚿㛀㛁㛂㛃㛄㛅㛆㛇㛈㛉㛊㛋㛌㛍㛎㛏㛐㛑㛒㛓㛔㛕㛖㛗㛘㛙㛚㛛㛜㛝㛞㛟㛠㛡㛢㛣㛤㛥㛦㛧㛨㛩㛪㛫㛬㛭㛮㛯㛰㛱㛲㛳㛴㛵㛶㛷㛸㛹㛺㛻㛼㛽㛾㛿">>,
      <<14153, "㞀㞁㞂㞃㞄㞅㞆㞇㞈㞉㞊㞋㞌㞍㞎㞏㞐㞑㞒㞓㞔㞕㞖㞗㞘㞙㞚㞛㞜㞝㞞㞟㞠㞡㞢㞣㞤㞥㞦㞧㞨㞩㞪㞫㞬㞭㞮㞯㞰㞱㞲㞳㞴㞵㞶㞷㞸㞹㞺㞻㞼㞽㞾㞿㟀㟁㟂㟃㟄㟅㟆㟇㟈㟉㟊㟋㟌㟍㟎㟏㟐㟑㟒㟓㟔㟕㟖㟗㟘㟙㟚㟛㟜㟝㟞㟟㟠㟡㟢㟣㟤㟥㟦㟧㟨㟩㟪㟫㟬㟭㟮㟯㟰㟱㟲㟳㟴㟵㟶㟷㟸㟹㟺㟻㟼㟽㟾㟿">>,
      <<14409, "㢀㢁㢂㢃㢄㢅㢆㢇㢈㢉㢊㢋㢌㢍㢎㢏㢐㢑㢒㢓㢔㢕㢖㢗㢘㢙㢚㢛㢜㢝㢞㢟㢠㢡㢢㢣㢤㢥㢦㢧㢨㢩㢪㢫㢬㢭㢮㢯㢰㢱㢲㢳㢴㢵㢶㢷㢸㢹㢺㢻㢼㢽㢾㢿㣀㣁㣂㣃㣄㣅㣆㣇㣈㣉㣊㣋㣌㣍㣎㣏㣐㣑㣒㣓㣔㣕㣖㣗㣘㣙㣚㣛㣜㣝㣞㣟㣠㣡㣢㣣㣤㣥㣦㣧㣨㣩㣪㣫㣬㣭㣮㣯㣰㣱㣲㣳㣴㣵㣶㣷㣸㣹㣺㣻㣼㣽㣾㣿">>,
      <<14665, "㦀㦁㦂㦃㦄㦅㦆㦇㦈㦉㦊㦋㦌㦍㦎㦏㦐㦑㦒㦓㦔㦕㦖㦗㦘㦙㦚㦛㦜㦝㦞㦟㦠㦡㦢㦣㦤㦥㦦㦧㦨㦩㦪㦫㦬㦭㦮㦯㦰㦱㦲㦳㦴㦵㦶㦷㦸㦹㦺㦻㦼㦽㦾㦿㧀㧁㧂㧃㧄㧅㧆㧇㧈㧉㧊㧋㧌㧍㧎㧏㧐㧑㧒㧓㧔㧕㧖㧗㧘㧙㧚㧛㧜㧝㧞㧟㧠㧡㧢㧣㧤㧥㧦㧧㧨㧩㧪㧫㧬㧭㧮㧯㧰㧱㧲㧳㧴㧵㧶㧷㧸㧹㧺㧻㧼㧽㧾㧿">>,
      <<14921, "㪀㪁㪂㪃㪄㪅㪆㪇㪈㪉㪊㪋㪌㪍㪎㪏㪐㪑㪒㪓㪔㪕㪖㪗㪘㪙㪚㪛㪜㪝㪞㪟㪠㪡㪢㪣㪤㪥㪦㪧㪨㪩㪪㪫㪬㪭㪮㪯㪰㪱㪲㪳㪴㪵㪶㪷㪸㪹㪺㪻㪼㪽㪾㪿㫀㫁㫂㫃㫄㫅㫆㫇㫈㫉㫊㫋㫌㫍㫎㫏㫐㫑㫒㫓㫔㫕㫖㫗㫘㫙㫚㫛㫜㫝㫞㫟㫠㫡㫢㫣㫤㫥㫦㫧㫨㫩㫪㫫㫬㫭㫮㫯㫰㫱㫲㫳㫴㫵㫶㫷㫸㫹㫺㫻㫼㫽㫾㫿">>,
      <<15177, "㮀㮁㮂㮃㮄㮅㮆㮇㮈㮉㮊㮋㮌㮍㮎㮏㮐㮑㮒㮓㮔㮕㮖㮗㮘㮙㮚㮛㮜㮝㮞㮟㮠㮡㮢㮣㮤㮥㮦㮧㮨㮩㮪㮫㮬㮭㮮㮯㮰㮱㮲㮳㮴㮵㮶㮷㮸㮹㮺㮻㮼㮽㮾㮿㯀㯁㯂㯃㯄㯅㯆㯇㯈㯉㯊㯋㯌㯍㯎㯏㯐㯑㯒㯓㯔㯕㯖㯗㯘㯙㯚㯛㯜㯝㯞㯟㯠㯡㯢㯣㯤㯥㯦㯧㯨㯩㯪㯫㯬㯭㯮㯯㯰㯱㯲㯳㯴㯵㯶㯷㯸㯹㯺㯻㯼㯽㯾㯿">>,
      <<15433, "㲀㲁㲂㲃㲄㲅㲆㲇㲈㲉㲊㲋㲌㲍㲎㲏㲐㲑㲒㲓㲔㲕㲖㲗㲘㲙㲚㲛㲜㲝㲞㲟㲠㲡㲢㲣㲤㲥㲦㲧㲨㲩㲪㲫㲬㲭㲮㲯㲰㲱㲲㲳㲴㲵㲶㲷㲸㲹㲺㲻㲼㲽㲾㲿㳀㳁㳂㳃㳄㳅㳆㳇㳈㳉㳊㳋㳌㳍㳎㳏㳐㳑㳒㳓㳔㳕㳖㳗㳘㳙㳚㳛㳜㳝㳞㳟㳠㳡㳢㳣㳤㳥㳦㳧㳨㳩㳪㳫㳬㳭㳮㳯㳰㳱㳲㳳㳴㳵㳶㳷㳸㳹㳺㳻㳼㳽㳾㳿">>,
      <<15689, "㶀㶁㶂㶃㶄㶅㶆㶇㶈㶉㶊㶋㶌㶍㶎㶏㶐㶑㶒㶓㶔㶕㶖㶗㶘㶙㶚㶛㶜㶝㶞㶟㶠㶡㶢㶣㶤㶥㶦㶧㶨㶩㶪㶫㶬㶭㶮㶯㶰㶱㶲㶳㶴㶵㶶㶷㶸㶹㶺㶻㶼㶽㶾㶿㷀㷁㷂㷃㷄㷅㷆㷇㷈㷉㷊㷋㷌㷍㷎㷏㷐㷑㷒㷓㷔㷕㷖㷗㷘㷙㷚㷛㷜㷝㷞㷟㷠㷡㷢㷣㷤㷥㷦㷧㷨㷩㷪㷫㷬㷭㷮㷯㷰㷱㷲㷳㷴㷵㷶㷷㷸㷹㷺㷻㷼㷽㷾㷿">>,
      <<15945, "㺀㺁㺂㺃㺄㺅㺆㺇㺈㺉㺊㺋㺌㺍㺎㺏㺐㺑㺒㺓㺔㺕㺖㺗㺘㺙㺚㺛㺜㺝㺞㺟㺠㺡㺢㺣㺤㺥㺦㺧㺨㺩㺪㺫㺬㺭㺮㺯㺰㺱㺲㺳㺴㺵㺶㺷㺸㺹㺺㺻㺼㺽㺾㺿㻀㻁㻂㻃㻄㻅㻆㻇㻈㻉㻊㻋㻌㻍㻎㻏㻐㻑㻒㻓㻔㻕㻖㻗㻘㻙㻚㻛㻜㻝㻞㻟㻠㻡㻢㻣㻤㻥㻦㻧㻨㻩㻪㻫㻬㻭㻮㻯㻰㻱㻲㻳㻴㻵㻶㻷㻸㻹㻺㻻㻼㻽㻾㻿">>,
      <<16201, "㾀㾁㾂㾃㾄㾅㾆㾇㾈㾉㾊㾋㾌㾍㾎㾏㾐㾑㾒㾓㾔㾕㾖㾗㾘㾙㾚㾛㾜㾝㾞㾟㾠㾡㾢㾣㾤㾥㾦㾧㾨㾩㾪㾫㾬㾭㾮㾯㾰㾱㾲㾳㾴㾵㾶㾷㾸㾹㾺㾻㾼㾽㾾㾿㿀㿁㿂㿃㿄㿅㿆㿇㿈㿉㿊㿋㿌㿍㿎㿏㿐㿑㿒㿓㿔㿕㿖㿗㿘㿙㿚㿛㿜㿝㿞㿟㿠㿡㿢㿣㿤㿥㿦㿧㿨㿩㿪㿫㿬㿭㿮㿯㿰㿱㿲㿳㿴㿵㿶㿷㿸㿹㿺㿻㿼㿽㿾㿿">>,
      <<16457, "䂀䂁䂂䂃䂄䂅䂆䂇䂈䂉䂊䂋䂌䂍䂎䂏䂐䂑䂒䂓䂔䂕䂖䂗䂘䂙䂚䂛䂜䂝䂞䂟䂠䂡䂢䂣䂤䂥䂦䂧䂨䂩䂪䂫䂬䂭䂮䂯䂰䂱䂲䂳䂴䂵䂶䂷䂸䂹䂺䂻䂼䂽䂾䂿䃀䃁䃂䃃䃄䃅䃆䃇䃈䃉䃊䃋䃌䃍䃎䃏䃐䃑䃒䃓䃔䃕䃖䃗䃘䃙䃚䃛䃜䃝䃞䃟䃠䃡䃢䃣䃤䃥䃦䃧䃨䃩䃪䃫䃬䃭䃮䃯䃰䃱䃲䃳䃴䃵䃶䃷䃸䃹䃺䃻䃼䃽䃾䃿">>,
      <<16713, "䆀䆁䆂䆃䆄䆅䆆䆇䆈䆉䆊䆋䆌䆍䆎䆏䆐䆑䆒䆓䆔䆕䆖䆗䆘䆙䆚䆛䆜䆝䆞䆟䆠䆡䆢䆣䆤䆥䆦䆧䆨䆩䆪䆫䆬䆭䆮䆯䆰䆱䆲䆳䆴䆵䆶䆷䆸䆹䆺䆻䆼䆽䆾䆿䇀䇁䇂䇃䇄䇅䇆䇇䇈䇉䇊䇋䇌䇍䇎䇏䇐䇑䇒䇓䇔䇕䇖䇗䇘䇙䇚䇛䇜䇝䇞䇟䇠䇡䇢䇣䇤䇥䇦䇧䇨䇩䇪䇫䇬䇭䇮䇯䇰䇱䇲䇳䇴䇵䇶䇷䇸䇹䇺䇻䇼䇽䇾䇿">>,
      <<16969, "䊀䊁䊂䊃䊄䊅䊆䊇䊈䊉䊊䊋䊌䊍䊎䊏䊐䊑䊒䊓䊔䊕䊖䊗䊘䊙䊚䊛䊜䊝䊞䊟䊠䊡䊢䊣䊤䊥䊦䊧䊨䊩䊪䊫䊬䊭䊮䊯䊰䊱䊲䊳䊴䊵䊶䊷䊸䊹䊺䊻䊼䊽䊾䊿䋀䋁䋂䋃䋄䋅䋆䋇䋈䋉䋊䋋䋌䋍䋎䋏䋐䋑䋒䋓䋔䋕䋖䋗䋘䋙䋚䋛䋜䋝䋞䋟䋠䋡䋢䋣䋤䋥䋦䋧䋨䋩䋪䋫䋬䋭䋮䋯䋰䋱䋲䋳䋴䋵䋶䋷䋸䋹䋺䋻䋼䋽䋾䋿">>,
      <<17225, "䎀䎁䎂䎃䎄䎅䎆䎇䎈䎉䎊䎋䎌䎍䎎䎏䎐䎑䎒䎓䎔䎕䎖䎗䎘䎙䎚䎛䎜䎝䎞䎟䎠䎡䎢䎣䎤䎥䎦䎧䎨䎩䎪䎫䎬䎭䎮䎯䎰䎱䎲䎳䎴䎵䎶䎷䎸䎹䎺䎻䎼䎽䎾䎿䏀䏁䏂䏃䏄䏅䏆䏇䏈䏉䏊䏋䏌䏍䏎䏏䏐䏑䏒䏓䏔䏕䏖䏗䏘䏙䏚䏛䏜䏝䏞䏟䏠䏡䏢䏣䏤䏥䏦䏧䏨䏩䏪䏫䏬䏭䏮䏯䏰䏱䏲䏳䏴䏵䏶䏷䏸䏹䏺䏻䏼䏽䏾䏿">>,
      <<17481, "䒀䒁䒂䒃䒄䒅䒆䒇䒈䒉䒊䒋䒌䒍䒎䒏䒐䒑䒒䒓䒔䒕䒖䒗䒘䒙䒚䒛䒜䒝䒞䒟䒠䒡䒢䒣䒤䒥䒦䒧䒨䒩䒪䒫䒬䒭䒮䒯䒰䒱䒲䒳䒴䒵䒶䒷䒸䒹䒺䒻䒼䒽䒾䒿䓀䓁䓂䓃䓄䓅䓆䓇䓈䓉䓊䓋䓌䓍䓎䓏䓐䓑䓒䓓䓔䓕䓖䓗䓘䓙䓚䓛䓜䓝䓞䓟䓠䓡䓢䓣䓤䓥䓦䓧䓨䓩䓪䓫䓬䓭䓮䓯䓰䓱䓲䓳䓴䓵䓶䓷䓸䓹䓺䓻䓼䓽䓾䓿">>,
      <<17737, "䖀䖁䖂䖃䖄䖅䖆䖇䖈䖉䖊䖋䖌䖍䖎䖏䖐䖑䖒䖓䖔䖕䖖䖗䖘䖙䖚䖛䖜䖝䖞䖟䖠䖡䖢䖣䖤䖥䖦䖧䖨䖩䖪䖫䖬䖭䖮䖯䖰䖱䖲䖳䖴䖵䖶䖷䖸䖹䖺䖻䖼䖽䖾䖿䗀䗁䗂䗃䗄䗅䗆䗇䗈䗉䗊䗋䗌䗍䗎䗏䗐䗑䗒䗓䗔䗕䗖䗗䗘䗙䗚䗛䗜䗝䗞䗟䗠䗡䗢䗣䗤䗥䗦䗧䗨䗩䗪䗫䗬䗭䗮䗯䗰䗱䗲䗳䗴䗵䗶䗷䗸䗹䗺䗻䗼䗽䗾䗿">>,
      <<17993, "䚀䚁䚂䚃䚄䚅䚆䚇䚈䚉䚊䚋䚌䚍䚎䚏䚐䚑䚒䚓䚔䚕䚖䚗䚘䚙䚚䚛䚜䚝䚞䚟䚠䚡䚢䚣䚤䚥䚦䚧䚨䚩䚪䚫䚬䚭䚮䚯䚰䚱䚲䚳䚴䚵䚶䚷䚸䚹䚺䚻䚼䚽䚾䚿䛀䛁䛂䛃䛄䛅䛆䛇䛈䛉䛊䛋䛌䛍䛎䛏䛐䛑䛒䛓䛔䛕䛖䛗䛘䛙䛚䛛䛜䛝䛞䛟䛠䛡䛢䛣䛤䛥䛦䛧䛨䛩䛪䛫䛬䛭䛮䛯䛰䛱䛲䛳䛴䛵䛶䛷䛸䛹䛺䛻䛼䛽䛾䛿">>,
      <<18249, "䞀䞁䞂䞃䞄䞅䞆䞇䞈䞉䞊䞋䞌䞍䞎䞏䞐䞑䞒䞓䞔䞕䞖䞗䞘䞙䞚䞛䞜䞝䞞䞟䞠䞡䞢䞣䞤䞥䞦䞧䞨䞩䞪䞫䞬䞭䞮䞯䞰䞱䞲䞳䞴䞵䞶䞷䞸䞹䞺䞻䞼䞽䞾䞿䟀䟁䟂䟃䟄䟅䟆䟇䟈䟉䟊䟋䟌䟍䟎䟏䟐䟑䟒䟓䟔䟕䟖䟗䟘䟙䟚䟛䟜䟝䟞䟟䟠䟡䟢䟣䟤䟥䟦䟧䟨䟩䟪䟫䟬䟭䟮䟯䟰䟱䟲䟳䟴䟵䟶䟷䟸䟹䟺䟻䟼䟽䟾䟿">>,
      <<18505, "䢀䢁䢂䢃䢄䢅䢆䢇䢈䢉䢊䢋䢌䢍䢎䢏䢐䢑䢒䢓䢔䢕䢖䢗䢘䢙䢚䢛䢜䢝䢞䢟䢠䢡䢢䢣䢤䢥䢦䢧䢨䢩䢪䢫䢬䢭䢮䢯䢰䢱䢲䢳䢴䢵䢶䢷䢸䢹䢺䢻䢼䢽䢾䢿䣀䣁䣂䣃䣄䣅䣆䣇䣈䣉䣊䣋䣌䣍䣎䣏䣐䣑䣒䣓䣔䣕䣖䣗䣘䣙䣚䣛䣜䣝䣞䣟䣠䣡䣢䣣䣤䣥䣦䣧䣨䣩䣪䣫䣬䣭䣮䣯䣰䣱䣲䣳䣴䣵䣶䣷䣸䣹䣺䣻䣼䣽䣾䣿">>,
      <<18761, "䦀䦁䦂䦃䦄䦅䦆䦇䦈䦉䦊䦋䦌䦍䦎䦏䦐䦑䦒䦓䦔䦕䦖䦗䦘䦙䦚䦛䦜䦝䦞䦟䦠䦡䦢䦣䦤䦥䦦䦧䦨䦩䦪䦫䦬䦭䦮䦯䦰䦱䦲䦳䦴䦵䦶䦷䦸䦹䦺䦻䦼䦽䦾䦿䧀䧁䧂䧃䧄䧅䧆䧇䧈䧉䧊䧋䧌䧍䧎䧏䧐䧑䧒䧓䧔䧕䧖䧗䧘䧙䧚䧛䧜䧝䧞䧟䧠䧡䧢䧣䧤䧥䧦䧧䧨䧩䧪䧫䧬䧭䧮䧯䧰䧱䧲䧳䧴䧵䧶䧷䧸䧹䧺䧻䧼䧽䧾䧿">>,
      <<19017, "䪀䪁䪂䪃䪄䪅䪆䪇䪈䪉䪊䪋䪌䪍䪎䪏䪐䪑䪒䪓䪔䪕䪖䪗䪘䪙䪚䪛䪜䪝䪞䪟䪠䪡䪢䪣䪤䪥䪦䪧䪨䪩䪪䪫䪬䪭䪮䪯䪰䪱䪲䪳䪴䪵䪶䪷䪸䪹䪺䪻䪼䪽䪾䪿䫀䫁䫂䫃䫄䫅䫆䫇䫈䫉䫊䫋䫌䫍䫎䫏䫐䫑䫒䫓䫔䫕䫖䫗䫘䫙䫚䫛䫜䫝䫞䫟䫠䫡䫢䫣䫤䫥䫦䫧䫨䫩䫪䫫䫬䫭䫮䫯䫰䫱䫲䫳䫴䫵䫶䫷䫸䫹䫺䫻䫼䫽䫾䫿">>,
      <<19273, "䮀䮁䮂䮃䮄䮅䮆䮇䮈䮉䮊䮋䮌䮍䮎䮏䮐䮑䮒䮓䮔䮕䮖䮗䮘䮙䮚䮛䮜䮝䮞䮟䮠䮡䮢䮣䮤䮥䮦䮧䮨䮩䮪䮫䮬䮭䮮䮯䮰䮱䮲䮳䮴䮵䮶䮷䮸䮹䮺䮻䮼䮽䮾䮿䯀䯁䯂䯃䯄䯅䯆䯇䯈䯉䯊䯋䯌䯍䯎䯏䯐䯑䯒䯓䯔䯕䯖䯗䯘䯙䯚䯛䯜䯝䯞䯟䯠䯡䯢䯣䯤䯥䯦䯧䯨䯩䯪䯫䯬䯭䯮䯯䯰䯱䯲䯳䯴䯵䯶䯷䯸䯹䯺䯻䯼䯽䯾䯿">>,
      <<19529, "䲀䲁䲂䲃䲄䲅䲆䲇䲈䲉䲊䲋䲌䲍䲎䲏䲐䲑䲒䲓䲔䲕䲖䲗䲘䲙䲚䲛䲜䲝䲞䲟䲠䲡䲢䲣䲤䲥䲦䲧䲨䲩䲪䲫䲬䲭䲮䲯䲰䲱䲲䲳䲴䲵䲶䲷䲸䲹䲺䲻䲼䲽䲾䲿䳀䳁䳂䳃䳄䳅䳆䳇䳈䳉䳊䳋䳌䳍䳎䳏䳐䳑䳒䳓䳔䳕䳖䳗䳘䳙䳚䳛䳜䳝䳞䳟䳠䳡䳢䳣䳤䳥䳦䳧䳨䳩䳪䳫䳬䳭䳮䳯䳰䳱䳲䳳䳴䳵䳶䳷䳸䳹䳺䳻䳼䳽䳾䳿">>,
      <<19785, "䶀䶁䶂䶃䶄䶅䶆䶇䶈䶉䶊䶋䶌䶍䶎䶏䶐䶑䶒䶓䶔䶕䶖䶗䶘䶙䶚䶛䶜䶝䶞䶟䶠䶡䶢䶣䶤䶥䶦䶧䶨䶩䶪䶫䶬䶭䶮䶯䶰䶱䶲䶳䶴䶵䶶䶷䶸䶹䶺䶻䶼䶽䶾䶿">>,
      <<20041, "亀亁亂亃亄亅了亇予争亊事二亍于亏亐云互亓五井亖亗亘亙亚些亜亝亞亟亠亡亢亣交亥亦产亨亩亪享京亭亮亯亰亱亲亳亴亵亶亷亸亹人亻亼亽亾亿什仁仂仃仄仅仆仇仈仉今介仌仍从仏仐仑仒仓仔仕他仗付仙仚仛仜仝仞仟仠仡仢代令以仦仧仨仩仪仫们仭仮仯仰仱仲仳仴仵件价仸仹仺任仼份仾仿">>,
      <<20297, "侀侁侂侃侄侅來侇侈侉侊例侌侍侎侏侐侑侒侓侔侕侖侗侘侙侚供侜依侞侟侠価侢侣侤侥侦侧侨侩侪侫侬侭侮侯侰侱侲侳侴侵侶侷侸侹侺侻侼侽侾便俀俁係促俄俅俆俇俈俉俊俋俌俍俎俏俐俑俒俓俔俕俖俗俘俙俚俛俜保俞俟俠信俢俣俤俥俦俧俨俩俪俫俬俭修俯俰俱俲俳俴俵俶俷俸俹俺俻俼俽俾俿">>,
      <<20553, "傀傁傂傃傄傅傆傇傈傉傊傋傌傍傎傏傐傑傒傓傔傕傖傗傘備傚傛傜傝傞傟傠傡傢傣傤傥傦傧储傩傪傫催傭傮傯傰傱傲傳傴債傶傷傸傹傺傻傼傽傾傿僀僁僂僃僄僅僆僇僈僉僊僋僌働僎像僐僑僒僓僔僕僖僗僘僙僚僛僜僝僞僟僠僡僢僣僤僥僦僧僨僩僪僫僬僭僮僯僰僱僲僳僴僵僶僷僸價僺僻僼僽僾僿">>,
      <<20809, "冀冁冂冃冄内円冇冈冉冊冋册再冎冏冐冑冒冓冔冕冖冗冘写冚军农冝冞冟冠冡冢冣冤冥冦冧冨冩冪冫冬冭冮冯冰冱冲决冴况冶冷冸冹冺冻冼冽冾冿净凁凂凃凄凅准凇凈凉凊凋凌凍凎减凐凑凒凓凔凕凖凗凘凙凚凛凜凝凞凟几凡凢凣凤凥処凧凨凩凪凫凬凭凮凯凰凱凲凳凴凵凶凷凸凹出击凼函凾凿">>,
      <<21065, "劀劁劂劃劄劅劆劇劈劉劊劋劌劍劎劏劐劑劒劓劔劕劖劗劘劙劚力劜劝办功加务劢劣劤劥劦劧动助努劫劬劭劮劯劰励劲劳労劵劶劷劸効劺劻劼劽劾势勀勁勂勃勄勅勆勇勈勉勊勋勌勍勎勏勐勑勒勓勔動勖勗勘務勚勛勜勝勞募勠勡勢勣勤勥勦勧勨勩勪勫勬勭勮勯勰勱勲勳勴勵勶勷勸勹勺勻勼勽勾勿">>,
      <<21321, "厀厁厂厃厄厅历厇厈厉厊压厌厍厎厏厐厑厒厓厔厕厖厗厘厙厚厛厜厝厞原厠厡厢厣厤厥厦厧厨厩厪厫厬厭厮厯厰厱厲厳厴厵厶厷厸厹厺去厼厽厾县叀叁参參叄叅叆叇又叉及友双反収叏叐发叒叓叔叕取受变叙叚叛叜叝叞叟叠叡叢口古句另叧叨叩只叫召叭叮可台叱史右叴叵叶号司叹叺叻叼叽叾叿">>,
      <<21577, "咀咁咂咃咄咅咆咇咈咉咊咋和咍咎咏咐咑咒咓咔咕咖咗咘咙咚咛咜咝咞咟咠咡咢咣咤咥咦咧咨咩咪咫咬咭咮咯咰咱咲咳咴咵咶咷咸咹咺咻咼咽咾咿哀品哂哃哄哅哆哇哈哉哊哋哌响哎哏哐哑哒哓哔哕哖哗哘哙哚哛哜哝哞哟哠員哢哣哤哥哦哧哨哩哪哫哬哭哮哯哰哱哲哳哴哵哶哷哸哹哺哻哼哽哾哿">>,
      <<21833, "喀喁喂喃善喅喆喇喈喉喊喋喌喍喎喏喐喑喒喓喔喕喖喗喘喙喚喛喜喝喞喟喠喡喢喣喤喥喦喧喨喩喪喫喬喭單喯喰喱喲喳喴喵営喷喸喹喺喻喼喽喾喿嗀嗁嗂嗃嗄嗅嗆嗇嗈嗉嗊嗋嗌嗍嗎嗏嗐嗑嗒嗓嗔嗕嗖嗗嗘嗙嗚嗛嗜嗝嗞嗟嗠嗡嗢嗣嗤嗥嗦嗧嗨嗩嗪嗫嗬嗭嗮嗯嗰嗱嗲嗳嗴嗵嗶嗷嗸嗹嗺嗻嗼嗽嗾嗿">>,
      <<22089, "嚀嚁嚂嚃嚄嚅嚆嚇嚈嚉嚊嚋嚌嚍嚎嚏嚐嚑嚒嚓嚔嚕嚖嚗嚘嚙嚚嚛嚜嚝嚞嚟嚠嚡嚢嚣嚤嚥嚦嚧嚨嚩嚪嚫嚬嚭嚮嚯嚰嚱嚲嚳嚴嚵嚶嚷嚸嚹嚺嚻嚼嚽嚾嚿囀囁囂囃囄囅囆囇囈囉囊囋囌囍囎囏囐囑囒囓囔囕囖囗囘囙囚四囜囝回囟因囡团団囤囥囦囧囨囩囪囫囬园囮囯困囱囲図围囵囶囷囸囹固囻囼国图囿">>,
      <<22345, "垀垁垂垃垄垅垆垇垈垉垊型垌垍垎垏垐垑垒垓垔垕垖垗垘垙垚垛垜垝垞垟垠垡垢垣垤垥垦垧垨垩垪垫垬垭垮垯垰垱垲垳垴垵垶垷垸垹垺垻垼垽垾垿埀埁埂埃埄埅埆埇埈埉埊埋埌埍城埏埐埑埒埓埔埕埖埗埘埙埚埛埜埝埞域埠埡埢埣埤埥埦埧埨埩埪埫埬埭埮埯埰埱埲埳埴埵埶執埸培基埻埼埽埾埿">>,
      <<22601, "墀墁墂境墄墅墆墇墈墉墊墋墌墍墎墏墐墑墒墓墔墕墖増墘墙墚墛墜墝增墟墠墡墢墣墤墥墦墧墨墩墪墫墬墭墮墯墰墱墲墳墴墵墶墷墸墹墺墻墼墽墾墿壀壁壂壃壄壅壆壇壈壉壊壋壌壍壎壏壐壑壒壓壔壕壖壗壘壙壚壛壜壝壞壟壠壡壢壣壤壥壦壧壨壩壪士壬壭壮壯声壱売壳壴壵壶壷壸壹壺壻壼壽壾壿">>,
      <<22857, "妀妁如妃妄妅妆妇妈妉妊妋妌妍妎妏妐妑妒妓妔妕妖妗妘妙妚妛妜妝妞妟妠妡妢妣妤妥妦妧妨妩妪妫妬妭妮妯妰妱妲妳妴妵妶妷妸妹妺妻妼妽妾妿姀姁姂姃姄姅姆姇姈姉姊始姌姍姎姏姐姑姒姓委姕姖姗姘姙姚姛姜姝姞姟姠姡姢姣姤姥姦姧姨姩姪姫姬姭姮姯姰姱姲姳姴姵姶姷姸姹姺姻姼姽姾姿">>,
      <<23113, "媀媁媂媃媄媅媆媇媈媉媊媋媌媍媎媏媐媑媒媓媔媕媖媗媘媙媚媛媜媝媞媟媠媡媢媣媤媥媦媧媨媩媪媫媬媭媮媯媰媱媲媳媴媵媶媷媸媹媺媻媼媽媾媿嫀嫁嫂嫃嫄嫅嫆嫇嫈嫉嫊嫋嫌嫍嫎嫏嫐嫑嫒嫓嫔嫕嫖嫗嫘嫙嫚嫛嫜嫝嫞嫟嫠嫡嫢嫣嫤嫥嫦嫧嫨嫩嫪嫫嫬嫭嫮嫯嫰嫱嫲嫳嫴嫵嫶嫷嫸嫹嫺嫻嫼嫽嫾嫿">>,
      <<23369, "宀宁宂它宄宅宆宇守安宊宋完宍宎宏宐宑宒宓宔宕宖宗官宙定宛宜宝实実宠审客宣室宥宦宧宨宩宪宫宬宭宮宯宰宱宲害宴宵家宷宸容宺宻宼宽宾宿寀寁寂寃寄寅密寇寈寉寊寋富寍寎寏寐寑寒寓寔寕寖寗寘寙寚寛寜寝寞察寠寡寢寣寤寥實寧寨審寪寫寬寭寮寯寰寱寲寳寴寵寶寷寸对寺寻导寽対寿">>,
      <<23625, "岀岁岂岃岄岅岆岇岈岉岊岋岌岍岎岏岐岑岒岓岔岕岖岗岘岙岚岛岜岝岞岟岠岡岢岣岤岥岦岧岨岩岪岫岬岭岮岯岰岱岲岳岴岵岶岷岸岹岺岻岼岽岾岿峀峁峂峃峄峅峆峇峈峉峊峋峌峍峎峏峐峑峒峓峔峕峖峗峘峙峚峛峜峝峞峟峠峡峢峣峤峥峦峧峨峩峪峫峬峭峮峯峰峱峲峳峴峵島峷峸峹峺峻峼峽峾峿">>,
      <<23881, "嶀嶁嶂嶃嶄嶅嶆嶇嶈嶉嶊嶋嶌嶍嶎嶏嶐嶑嶒嶓嶔嶕嶖嶗嶘嶙嶚嶛嶜嶝嶞嶟嶠嶡嶢嶣嶤嶥嶦嶧嶨嶩嶪嶫嶬嶭嶮嶯嶰嶱嶲嶳嶴嶵嶶嶷嶸嶹嶺嶻嶼嶽嶾嶿巀巁巂巃巄巅巆巇巈巉巊巋巌巍巎巏巐巑巒巓巔巕巖巗巘巙巚巛巜川州巟巠巡巢巣巤工左巧巨巩巪巫巬巭差巯巰己已巳巴巵巶巷巸巹巺巻巼巽巾巿">>,
      <<24137, "庀庁庂広庄庅庆庇庈庉床庋庌庍庎序庐庑庒库应底庖店庘庙庚庛府庝庞废庠庡庢庣庤庥度座庨庩庪庫庬庭庮庯庰庱庲庳庴庵庶康庸庹庺庻庼庽庾庿廀廁廂廃廄廅廆廇廈廉廊廋廌廍廎廏廐廑廒廓廔廕廖廗廘廙廚廛廜廝廞廟廠廡廢廣廤廥廦廧廨廩廪廫廬廭廮廯廰廱廲廳廴廵延廷廸廹建廻廼廽廾廿">>,
      <<24393, "往征徂徃径待徆徇很徉徊律後徍徎徏徐徑徒従徔徕徖得徘徙徚徛徜徝從徟徠御徢徣徤徥徦徧徨復循徫徬徭微徯徰徱徲徳徴徵徶德徸徹徺徻徼徽徾徿忀忁忂心忄必忆忇忈忉忊忋忌忍忎忏忐忑忒忓忔忕忖志忘忙忚忛応忝忞忟忠忡忢忣忤忥忦忧忨忩忪快忬忭忮忯忰忱忲忳忴念忶忷忸忹忺忻忼忽忾忿">>,
      <<24649, "悀悁悂悃悄悅悆悇悈悉悊悋悌悍悎悏悐悑悒悓悔悕悖悗悘悙悚悛悜悝悞悟悠悡悢患悤悥悦悧您悩悪悫悬悭悮悯悰悱悲悳悴悵悶悷悸悹悺悻悼悽悾悿惀惁惂惃惄情惆惇惈惉惊惋惌惍惎惏惐惑惒惓惔惕惖惗惘惙惚惛惜惝惞惟惠惡惢惣惤惥惦惧惨惩惪惫惬惭惮惯惰惱惲想惴惵惶惷惸惹惺惻惼惽惾惿">>,
      <<24905, "憀憁憂憃憄憅憆憇憈憉憊憋憌憍憎憏憐憑憒憓憔憕憖憗憘憙憚憛憜憝憞憟憠憡憢憣憤憥憦憧憨憩憪憫憬憭憮憯憰憱憲憳憴憵憶憷憸憹憺憻憼憽憾憿懀懁懂懃懄懅懆懇懈應懊懋懌懍懎懏懐懑懒懓懔懕懖懗懘懙懚懛懜懝懞懟懠懡懢懣懤懥懦懧懨懩懪懫懬懭懮懯懰懱懲懳懴懵懶懷懸懹懺懻懼懽懾懿">>,
      <<25161, "技抁抂抃抄抅抆抇抈抉把抋抌抍抎抏抐抑抒抓抔投抖抗折抙抚抛抜抝択抟抠抡抢抣护报抦抧抨抩抪披抬抭抮抯抰抱抲抳抴抵抶抷抸抹抺抻押抽抾抿拀拁拂拃拄担拆拇拈拉拊拋拌拍拎拏拐拑拒拓拔拕拖拗拘拙拚招拜拝拞拟拠拡拢拣拤拥拦拧拨择拪拫括拭拮拯拰拱拲拳拴拵拶拷拸拹拺拻拼拽拾拿">>,
      <<25417, "掀掁掂掃掄掅掆掇授掉掊掋掌掍掎掏掐掑排掓掔掕掖掗掘掙掚掛掜掝掞掟掠採探掣掤接掦控推掩措掫掬掭掮掯掰掱掲掳掴掵掶掷掸掹掺掻掼掽掾掿揀揁揂揃揄揅揆揇揈揉揊揋揌揍揎描提揑插揓揔揕揖揗揘揙揚換揜揝揞揟揠握揢揣揤揥揦揧揨揩揪揫揬揭揮揯揰揱揲揳援揵揶揷揸揹揺揻揼揽揾揿">>,
      <<25673, "撀撁撂撃撄撅撆撇撈撉撊撋撌撍撎撏撐撑撒撓撔撕撖撗撘撙撚撛撜撝撞撟撠撡撢撣撤撥撦撧撨撩撪撫撬播撮撯撰撱撲撳撴撵撶撷撸撹撺撻撼撽撾撿擀擁擂擃擄擅擆擇擈擉擊擋擌操擎擏擐擑擒擓擔擕擖擗擘擙據擛擜擝擞擟擠擡擢擣擤擥擦擧擨擩擪擫擬擭擮擯擰擱擲擳擴擵擶擷擸擹擺擻擼擽擾擿">>,
      <<25929, "斀斁斂斃斄斅斆文斈斉斊斋斌斍斎斏斐斑斒斓斔斕斖斗斘料斚斛斜斝斞斟斠斡斢斣斤斥斦斧斨斩斪斫斬断斮斯新斱斲斳斴斵斶斷斸方斺斻於施斾斿旀旁旂旃旄旅旆旇旈旉旊旋旌旍旎族旐旑旒旓旔旕旖旗旘旙旚旛旜旝旞旟无旡既旣旤日旦旧旨早旪旫旬旭旮旯旰旱旲旳旴旵时旷旸旹旺旻旼旽旾旿">>,
      <<26185, "暀暁暂暃暄暅暆暇暈暉暊暋暌暍暎暏暐暑暒暓暔暕暖暗暘暙暚暛暜暝暞暟暠暡暢暣暤暥暦暧暨暩暪暫暬暭暮暯暰暱暲暳暴暵暶暷暸暹暺暻暼暽暾暿曀曁曂曃曄曅曆曇曈曉曊曋曌曍曎曏曐曑曒曓曔曕曖曗曘曙曚曛曜曝曞曟曠曡曢曣曤曥曦曧曨曩曪曫曬曭曮曯曰曱曲曳更曵曶曷書曹曺曻曼曽曾替">>,
      <<26441, "枀极枂枃构枅枆枇枈枉枊枋枌枍枎枏析枑枒枓枔枕枖林枘枙枚枛果枝枞枟枠枡枢枣枤枥枦枧枨枩枪枫枬枭枮枯枰枱枲枳枴枵架枷枸枹枺枻枼枽枾枿柀柁柂柃柄柅柆柇柈柉柊柋柌柍柎柏某柑柒染柔柕柖柗柘柙柚柛柜柝柞柟柠柡柢柣柤查柦柧柨柩柪柫柬柭柮柯柰柱柲柳柴柵柶柷柸柹柺査柼柽柾柿">>,
      <<26697, "梀梁梂梃梄梅梆梇梈梉梊梋梌梍梎梏梐梑梒梓梔梕梖梗梘梙梚梛梜條梞梟梠梡梢梣梤梥梦梧梨梩梪梫梬梭梮梯械梱梲梳梴梵梶梷梸梹梺梻梼梽梾梿检棁棂棃棄棅棆棇棈棉棊棋棌棍棎棏棐棑棒棓棔棕棖棗棘棙棚棛棜棝棞棟棠棡棢棣棤棥棦棧棨棩棪棫棬棭森棯棰棱棲棳棴棵棶棷棸棹棺棻棼棽棾棿">>,
      <<26953, "榀榁概榃榄榅榆榇榈榉榊榋榌榍榎榏榐榑榒榓榔榕榖榗榘榙榚榛榜榝榞榟榠榡榢榣榤榥榦榧榨榩榪榫榬榭榮榯榰榱榲榳榴榵榶榷榸榹榺榻榼榽榾榿槀槁槂槃槄槅槆槇槈槉槊構槌槍槎槏槐槑槒槓槔槕槖槗様槙槚槛槜槝槞槟槠槡槢槣槤槥槦槧槨槩槪槫槬槭槮槯槰槱槲槳槴槵槶槷槸槹槺槻槼槽槾槿">>,
      <<27209, "檀檁檂檃檄檅檆檇檈檉檊檋檌檍檎檏檐檑檒檓檔檕檖檗檘檙檚檛檜檝檞檟檠檡檢檣檤檥檦檧檨檩檪檫檬檭檮檯檰檱檲檳檴檵檶檷檸檹檺檻檼檽檾檿櫀櫁櫂櫃櫄櫅櫆櫇櫈櫉櫊櫋櫌櫍櫎櫏櫐櫑櫒櫓櫔櫕櫖櫗櫘櫙櫚櫛櫜櫝櫞櫟櫠櫡櫢櫣櫤櫥櫦櫧櫨櫩櫪櫫櫬櫭櫮櫯櫰櫱櫲櫳櫴櫵櫶櫷櫸櫹櫺櫻櫼櫽櫾櫿">>,
      <<27465, "殀殁殂殃殄殅殆殇殈殉殊残殌殍殎殏殐殑殒殓殔殕殖殗殘殙殚殛殜殝殞殟殠殡殢殣殤殥殦殧殨殩殪殫殬殭殮殯殰殱殲殳殴段殶殷殸殹殺殻殼殽殾殿毀毁毂毃毄毅毆毇毈毉毊毋毌母毎每毐毑毒毓比毕毖毗毘毙毚毛毜毝毞毟毠毡毢毣毤毥毦毧毨毩毪毫毬毭毮毯毰毱毲毳毴毵毶毷毸毹毺毻毼毽毾毿">>,
      <<27721, "沀沁沂沃沄沅沆沇沈沉沊沋沌沍沎沏沐沑沒沓沔沕沖沗沘沙沚沛沜沝沞沟沠没沢沣沤沥沦沧沨沩沪沫沬沭沮沯沰沱沲河沴沵沶沷沸油沺治沼沽沾沿泀況泂泃泄泅泆泇泈泉泊泋泌泍泎泏泐泑泒泓泔法泖泗泘泙泚泛泜泝泞泟泠泡波泣泤泥泦泧注泩泪泫泬泭泮泯泰泱泲泳泴泵泶泷泸泹泺泻泼泽泾泿">>,
      <<27977, "涀涁涂涃涄涅涆涇消涉涊涋涌涍涎涏涐涑涒涓涔涕涖涗涘涙涚涛涜涝涞涟涠涡涢涣涤涥润涧涨涩涪涫涬涭涮涯涰涱液涳涴涵涶涷涸涹涺涻涼涽涾涿淀淁淂淃淄淅淆淇淈淉淊淋淌淍淎淏淐淑淒淓淔淕淖淗淘淙淚淛淜淝淞淟淠淡淢淣淤淥淦淧淨淩淪淫淬淭淮淯淰深淲淳淴淵淶混淸淹淺添淼淽淾淿">>,
      <<28233, "満溁溂溃溄溅溆溇溈溉溊溋溌溍溎溏源溑溒溓溔溕準溗溘溙溚溛溜溝溞溟溠溡溢溣溤溥溦溧溨溩溪溫溬溭溮溯溰溱溲溳溴溵溶溷溸溹溺溻溼溽溾溿滀滁滂滃滄滅滆滇滈滉滊滋滌滍滎滏滐滑滒滓滔滕滖滗滘滙滚滛滜滝滞滟滠满滢滣滤滥滦滧滨滩滪滫滬滭滮滯滰滱滲滳滴滵滶滷滸滹滺滻滼滽滾滿">>,
      <<28489, "澀澁澂澃澄澅澆澇澈澉澊澋澌澍澎澏澐澑澒澓澔澕澖澗澘澙澚澛澜澝澞澟澠澡澢澣澤澥澦澧澨澩澪澫澬澭澮澯澰澱澲澳澴澵澶澷澸澹澺澻澼澽澾澿激濁濂濃濄濅濆濇濈濉濊濋濌濍濎濏濐濑濒濓濔濕濖濗濘濙濚濛濜濝濞濟濠濡濢濣濤濥濦濧濨濩濪濫濬濭濮濯濰濱濲濳濴濵濶濷濸濹濺濻濼濽濾濿">>,
      <<28745, "炀炁炂炃炄炅炆炇炈炉炊炋炌炍炎炏炐炑炒炓炔炕炖炗炘炙炚炛炜炝炞炟炠炡炢炣炤炥炦炧炨炩炪炫炬炭炮炯炰炱炲炳炴炵炶炷炸点為炻炼炽炾炿烀烁烂烃烄烅烆烇烈烉烊烋烌烍烎烏烐烑烒烓烔烕烖烗烘烙烚烛烜烝烞烟烠烡烢烣烤烥烦烧烨烩烪烫烬热烮烯烰烱烲烳烴烵烶烷烸烹烺烻烼烽烾烿">>,
      <<29001, "熀熁熂熃熄熅熆熇熈熉熊熋熌熍熎熏熐熑熒熓熔熕熖熗熘熙熚熛熜熝熞熟熠熡熢熣熤熥熦熧熨熩熪熫熬熭熮熯熰熱熲熳熴熵熶熷熸熹熺熻熼熽熾熿燀燁燂燃燄燅燆燇燈燉燊燋燌燍燎燏燐燑燒燓燔燕燖燗燘燙燚燛燜燝燞營燠燡燢燣燤燥燦燧燨燩燪燫燬燭燮燯燰燱燲燳燴燵燶燷燸燹燺燻燼燽燾燿">>,
      <<29257, "犀犁犂犃犄犅犆犇犈犉犊犋犌犍犎犏犐犑犒犓犔犕犖犗犘犙犚犛犜犝犞犟犠犡犢犣犤犥犦犧犨犩犪犫犬犭犮犯犰犱犲犳犴犵状犷犸犹犺犻犼犽犾犿狀狁狂狃狄狅狆狇狈狉狊狋狌狍狎狏狐狑狒狓狔狕狖狗狘狙狚狛狜狝狞狟狠狡狢狣狤狥狦狧狨狩狪狫独狭狮狯狰狱狲狳狴狵狶狷狸狹狺狻狼狽狾狿">>,
      <<29513, "玀玁玂玃玄玅玆率玈玉玊王玌玍玎玏玐玑玒玓玔玕玖玗玘玙玚玛玜玝玞玟玠玡玢玣玤玥玦玧玨玩玪玫玬玭玮环现玱玲玳玴玵玶玷玸玹玺玻玼玽玾玿珀珁珂珃珄珅珆珇珈珉珊珋珌珍珎珏珐珑珒珓珔珕珖珗珘珙珚珛珜珝珞珟珠珡珢珣珤珥珦珧珨珩珪珫珬班珮珯珰珱珲珳珴珵珶珷珸珹珺珻珼珽現珿">>,
      <<29769, "璀璁璂璃璄璅璆璇璈璉璊璋璌璍璎璏璐璑璒璓璔璕璖璗璘璙璚璛璜璝璞璟璠璡璢璣璤璥璦璧璨璩璪璫璬璭璮璯環璱璲璳璴璵璶璷璸璹璺璻璼璽璾璿瓀瓁瓂瓃瓄瓅瓆瓇瓈瓉瓊瓋瓌瓍瓎瓏瓐瓑瓒瓓瓔瓕瓖瓗瓘瓙瓚瓛瓜瓝瓞瓟瓠瓡瓢瓣瓤瓥瓦瓧瓨瓩瓪瓫瓬瓭瓮瓯瓰瓱瓲瓳瓴瓵瓶瓷瓸瓹瓺瓻瓼瓽瓾瓿">>,
      <<30025, "疀疁疂疃疄疅疆疇疈疉疊疋疌疍疎疏疐疑疒疓疔疕疖疗疘疙疚疛疜疝疞疟疠疡疢疣疤疥疦疧疨疩疪疫疬疭疮疯疰疱疲疳疴疵疶疷疸疹疺疻疼疽疾疿痀痁痂痃痄病痆症痈痉痊痋痌痍痎痏痐痑痒痓痔痕痖痗痘痙痚痛痜痝痞痟痠痡痢痣痤痥痦痧痨痩痪痫痬痭痮痯痰痱痲痳痴痵痶痷痸痹痺痻痼痽痾痿">>,
      <<30281, "皀皁皂皃的皅皆皇皈皉皊皋皌皍皎皏皐皑皒皓皔皕皖皗皘皙皚皛皜皝皞皟皠皡皢皣皤皥皦皧皨皩皪皫皬皭皮皯皰皱皲皳皴皵皶皷皸皹皺皻皼皽皾皿盀盁盂盃盄盅盆盇盈盉益盋盌盍盎盏盐监盒盓盔盕盖盗盘盙盚盛盜盝盞盟盠盡盢監盤盥盦盧盨盩盪盫盬盭目盯盰盱盲盳直盵盶盷相盹盺盻盼盽盾盿">>,
      <<30537, "瞀瞁瞂瞃瞄瞅瞆瞇瞈瞉瞊瞋瞌瞍瞎瞏瞐瞑瞒瞓瞔瞕瞖瞗瞘瞙瞚瞛瞜瞝瞞瞟瞠瞡瞢瞣瞤瞥瞦瞧瞨瞩瞪瞫瞬瞭瞮瞯瞰瞱瞲瞳瞴瞵瞶瞷瞸瞹瞺瞻瞼瞽瞾瞿矀矁矂矃矄矅矆矇矈矉矊矋矌矍矎矏矐矑矒矓矔矕矖矗矘矙矚矛矜矝矞矟矠矡矢矣矤知矦矧矨矩矪矫矬短矮矯矰矱矲石矴矵矶矷矸矹矺矻矼矽矾矿">>,
      <<30793, "碀碁碂碃碄碅碆碇碈碉碊碋碌碍碎碏碐碑碒碓碔碕碖碗碘碙碚碛碜碝碞碟碠碡碢碣碤碥碦碧碨碩碪碫碬碭碮碯碰碱碲碳碴碵碶碷碸碹確碻碼碽碾碿磀磁磂磃磄磅磆磇磈磉磊磋磌磍磎磏磐磑磒磓磔磕磖磗磘磙磚磛磜磝磞磟磠磡磢磣磤磥磦磧磨磩磪磫磬磭磮磯磰磱磲磳磴磵磶磷磸磹磺磻磼磽磾磿">>,
      <<31049, "禀禁禂禃禄禅禆禇禈禉禊禋禌禍禎福禐禑禒禓禔禕禖禗禘禙禚禛禜禝禞禟禠禡禢禣禤禥禦禧禨禩禪禫禬禭禮禯禰禱禲禳禴禵禶禷禸禹禺离禼禽禾禿秀私秂秃秄秅秆秇秈秉秊秋秌种秎秏秐科秒秓秔秕秖秗秘秙秚秛秜秝秞租秠秡秢秣秤秥秦秧秨秩秪秫秬秭秮积称秱秲秳秴秵秶秷秸秹秺移秼秽秾秿">>,
      <<31305, "窀突窂窃窄窅窆窇窈窉窊窋窌窍窎窏窐窑窒窓窔窕窖窗窘窙窚窛窜窝窞窟窠窡窢窣窤窥窦窧窨窩窪窫窬窭窮窯窰窱窲窳窴窵窶窷窸窹窺窻窼窽窾窿竀竁竂竃竄竅竆竇竈竉竊立竌竍竎竏竐竑竒竓竔竕竖竗竘站竚竛竜竝竞竟章竡竢竣竤童竦竧竨竩竪竫竬竭竮端竰竱竲竳竴竵競竷竸竹竺竻竼竽竾竿">>,
      <<31561, "简箁箂箃箄箅箆箇箈箉箊箋箌箍箎箏箐箑箒箓箔箕箖算箘箙箚箛箜箝箞箟箠管箢箣箤箥箦箧箨箩箪箫箬箭箮箯箰箱箲箳箴箵箶箷箸箹箺箻箼箽箾箿節篁篂篃範篅篆篇篈築篊篋篌篍篎篏篐篑篒篓篔篕篖篗篘篙篚篛篜篝篞篟篠篡篢篣篤篥篦篧篨篩篪篫篬篭篮篯篰篱篲篳篴篵篶篷篸篹篺篻篼篽篾篿">>,
      <<31817, "粀粁粂粃粄粅粆粇粈粉粊粋粌粍粎粏粐粑粒粓粔粕粖粗粘粙粚粛粜粝粞粟粠粡粢粣粤粥粦粧粨粩粪粫粬粭粮粯粰粱粲粳粴粵粶粷粸粹粺粻粼粽精粿糀糁糂糃糄糅糆糇糈糉糊糋糌糍糎糏糐糑糒糓糔糕糖糗糘糙糚糛糜糝糞糟糠糡糢糣糤糥糦糧糨糩糪糫糬糭糮糯糰糱糲糳糴糵糶糷糸糹糺系糼糽糾糿">>,
      <<32073, "綀綁綂綃綄綅綆綇綈綉綊綋綌綍綎綏綐綑綒經綔綕綖綗綘継続綛綜綝綞綟綠綡綢綣綤綥綦綧綨綩綪綫綬維綮綯綰綱網綳綴綵綶綷綸綹綺綻綼綽綾綿緀緁緂緃緄緅緆緇緈緉緊緋緌緍緎総緐緑緒緓緔緕緖緗緘緙線緛緜緝緞緟締緡緢緣緤緥緦緧編緩緪緫緬緭緮緯緰緱緲緳練緵緶緷緸緹緺緻緼緽緾緿">>,
      <<32329, "纀纁纂纃纄纅纆纇纈纉纊纋續纍纎纏纐纑纒纓纔纕纖纗纘纙纚纛纜纝纞纟纠纡红纣纤纥约级纨纩纪纫纬纭纮纯纰纱纲纳纴纵纶纷纸纹纺纻纼纽纾线绀绁绂练组绅细织终绉绊绋绌绍绎经绐绑绒结绔绕绖绗绘给绚绛络绝绞统绠绡绢绣绤绥绦继绨绩绪绫绬续绮绯绰绱绲绳维绵绶绷绸绹绺绻综绽绾绿">>,
      <<32585, "羀羁羂羃羄羅羆羇羈羉羊羋羌羍美羏羐羑羒羓羔羕羖羗羘羙羚羛羜羝羞羟羠羡羢羣群羥羦羧羨義羪羫羬羭羮羯羰羱羲羳羴羵羶羷羸羹羺羻羼羽羾羿翀翁翂翃翄翅翆翇翈翉翊翋翌翍翎翏翐翑習翓翔翕翖翗翘翙翚翛翜翝翞翟翠翡翢翣翤翥翦翧翨翩翪翫翬翭翮翯翰翱翲翳翴翵翶翷翸翹翺翻翼翽翾翿">>,
      <<32841, "肀肁肂肃肄肅肆肇肈肉肊肋肌肍肎肏肐肑肒肓肔肕肖肗肘肙肚肛肜肝肞肟肠股肢肣肤肥肦肧肨肩肪肫肬肭肮肯肰肱育肳肴肵肶肷肸肹肺肻肼肽肾肿胀胁胂胃胄胅胆胇胈胉胊胋背胍胎胏胐胑胒胓胔胕胖胗胘胙胚胛胜胝胞胟胠胡胢胣胤胥胦胧胨胩胪胫胬胭胮胯胰胱胲胳胴胵胶胷胸胹胺胻胼能胾胿">>,
      <<33097, "膀膁膂膃膄膅膆膇膈膉膊膋膌膍膎膏膐膑膒膓膔膕膖膗膘膙膚膛膜膝膞膟膠膡膢膣膤膥膦膧膨膩膪膫膬膭膮膯膰膱膲膳膴膵膶膷膸膹膺膻膼膽膾膿臀臁臂臃臄臅臆臇臈臉臊臋臌臍臎臏臐臑臒臓臔臕臖臗臘臙臚臛臜臝臞臟臠臡臢臣臤臥臦臧臨臩自臫臬臭臮臯臰臱臲至致臵臶臷臸臹臺臻臼臽臾臿">>,
      <<33353, "芀芁节芃芄芅芆芇芈芉芊芋芌芍芎芏芐芑芒芓芔芕芖芗芘芙芚芛芜芝芞芟芠芡芢芣芤芥芦芧芨芩芪芫芬芭芮芯芰花芲芳芴芵芶芷芸芹芺芻芼芽芾芿苀苁苂苃苄苅苆苇苈苉苊苋苌苍苎苏苐苑苒苓苔苕苖苗苘苙苚苛苜苝苞苟苠苡苢苣苤若苦苧苨苩苪苫苬苭苮苯苰英苲苳苴苵苶苷苸苹苺苻苼苽苾苿">>,
      <<33609, "莀莁莂莃莄莅莆莇莈莉莊莋莌莍莎莏莐莑莒莓莔莕莖莗莘莙莚莛莜莝莞莟莠莡莢莣莤莥莦莧莨莩莪莫莬莭莮莯莰莱莲莳莴莵莶获莸莹莺莻莼莽莾莿菀菁菂菃菄菅菆菇菈菉菊菋菌菍菎菏菐菑菒菓菔菕菖菗菘菙菚菛菜菝菞菟菠菡菢菣菤菥菦菧菨菩菪菫菬菭菮華菰菱菲菳菴菵菶菷菸菹菺菻菼菽菾菿">>,
      <<33865, "蒀蒁蒂蒃蒄蒅蒆蒇蒈蒉蒊蒋蒌蒍蒎蒏蒐蒑蒒蒓蒔蒕蒖蒗蒘蒙蒚蒛蒜蒝蒞蒟蒠蒡蒢蒣蒤蒥蒦蒧蒨蒩蒪蒫蒬蒭蒮蒯蒰蒱蒲蒳蒴蒵蒶蒷蒸蒹蒺蒻蒼蒽蒾蒿蓀蓁蓂蓃蓄蓅蓆蓇蓈蓉蓊蓋蓌蓍蓎蓏蓐蓑蓒蓓蓔蓕蓖蓗蓘蓙蓚蓛蓜蓝蓞蓟蓠蓡蓢蓣蓤蓥蓦蓧蓨蓩蓪蓫蓬蓭蓮蓯蓰蓱蓲蓳蓴蓵蓶蓷蓸蓹蓺蓻蓼蓽蓾蓿">>,
      <<34121, "薀薁薂薃薄薅薆薇薈薉薊薋薌薍薎薏薐薑薒薓薔薕薖薗薘薙薚薛薜薝薞薟薠薡薢薣薤薥薦薧薨薩薪薫薬薭薮薯薰薱薲薳薴薵薶薷薸薹薺薻薼薽薾薿藀藁藂藃藄藅藆藇藈藉藊藋藌藍藎藏藐藑藒藓藔藕藖藗藘藙藚藛藜藝藞藟藠藡藢藣藤藥藦藧藨藩藪藫藬藭藮藯藰藱藲藳藴藵藶藷藸藹藺藻藼藽藾藿">>,
      <<34377, "蚀蚁蚂蚃蚄蚅蚆蚇蚈蚉蚊蚋蚌蚍蚎蚏蚐蚑蚒蚓蚔蚕蚖蚗蚘蚙蚚蚛蚜蚝蚞蚟蚠蚡蚢蚣蚤蚥蚦蚧蚨蚩蚪蚫蚬蚭蚮蚯蚰蚱蚲蚳蚴蚵蚶蚷蚸蚹蚺蚻蚼蚽蚾蚿蛀蛁蛂蛃蛄蛅蛆蛇蛈蛉蛊蛋蛌蛍蛎蛏蛐蛑蛒蛓蛔蛕蛖蛗蛘蛙蛚蛛蛜蛝蛞蛟蛠蛡蛢蛣蛤蛥蛦蛧蛨蛩蛪蛫蛬蛭蛮蛯蛰蛱蛲蛳蛴蛵蛶蛷蛸蛹蛺蛻蛼蛽蛾蛿">>,
      <<34633, "螀螁螂螃螄螅螆螇螈螉螊螋螌融螎螏螐螑螒螓螔螕螖螗螘螙螚螛螜螝螞螟螠螡螢螣螤螥螦螧螨螩螪螫螬螭螮螯螰螱螲螳螴螵螶螷螸螹螺螻螼螽螾螿蟀蟁蟂蟃蟄蟅蟆蟇蟈蟉蟊蟋蟌蟍蟎蟏蟐蟑蟒蟓蟔蟕蟖蟗蟘蟙蟚蟛蟜蟝蟞蟟蟠蟡蟢蟣蟤蟥蟦蟧蟨蟩蟪蟫蟬蟭蟮蟯蟰蟱蟲蟳蟴蟵蟶蟷蟸蟹蟺蟻蟼蟽蟾蟿">>,
      <<34889, "袀袁袂袃袄袅袆袇袈袉袊袋袌袍袎袏袐袑袒袓袔袕袖袗袘袙袚袛袜袝袞袟袠袡袢袣袤袥袦袧袨袩袪被袬袭袮袯袰袱袲袳袴袵袶袷袸袹袺袻袼袽袾袿裀裁裂裃裄装裆裇裈裉裊裋裌裍裎裏裐裑裒裓裔裕裖裗裘裙裚裛補裝裞裟裠裡裢裣裤裥裦裧裨裩裪裫裬裭裮裯裰裱裲裳裴裵裶裷裸裹裺裻裼製裾裿">>,
      <<35145, "覀要覂覃覄覅覆覇覈覉覊見覌覍覎規覐覑覒覓覔覕視覗覘覙覚覛覜覝覞覟覠覡覢覣覤覥覦覧覨覩親覫覬覭覮覯覰覱覲観覴覵覶覷覸覹覺覻覼覽覾覿觀见观觃规觅视觇览觉觊觋觌觍觎觏觐觑角觓觔觕觖觗觘觙觚觛觜觝觞觟觠觡觢解觤觥触觧觨觩觪觫觬觭觮觯觰觱觲觳觴觵觶觷觸觹觺觻觼觽觾觿">>,
      <<35401, "誀誁誂誃誄誅誆誇誈誉誊誋誌認誎誏誐誑誒誓誔誕誖誗誘誙誚誛誜誝語誟誠誡誢誣誤誥誦誧誨誩說誫説読誮誯誰誱課誳誴誵誶誷誸誹誺誻誼誽誾調諀諁諂諃諄諅諆談諈諉諊請諌諍諎諏諐諑諒諓諔諕論諗諘諙諚諛諜諝諞諟諠諡諢諣諤諥諦諧諨諩諪諫諬諭諮諯諰諱諲諳諴諵諶諷諸諹諺諻諼諽諾諿">>,
      <<35657, "讀讁讂讃讄讅讆讇讈讉變讋讌讍讎讏讐讑讒讓讔讕讖讗讘讙讚讛讜讝讞讟讠计订讣认讥讦讧讨让讪讫讬训议讯记讱讲讳讴讵讶讷许讹论讻讼讽设访诀证诂诃评诅识诇诈诉诊诋诌词诎诏诐译诒诓诔试诖诗诘诙诚诛诜话诞诟诠诡询诣诤该详诧诨诩诪诫诬语诮误诰诱诲诳说诵诶请诸诹诺读诼诽课诿">>,
      <<35913, "貀貁貂貃貄貅貆貇貈貉貊貋貌貍貎貏貐貑貒貓貔貕貖貗貘貙貚貛貜貝貞貟負財貢貣貤貥貦貧貨販貪貫責貭貮貯貰貱貲貳貴貵貶買貸貹貺費貼貽貾貿賀賁賂賃賄賅賆資賈賉賊賋賌賍賎賏賐賑賒賓賔賕賖賗賘賙賚賛賜賝賞賟賠賡賢賣賤賥賦賧賨賩質賫賬賭賮賯賰賱賲賳賴賵賶賷賸賹賺賻購賽賾賿">>,
      <<36169, "趀趁趂趃趄超趆趇趈趉越趋趌趍趎趏趐趑趒趓趔趕趖趗趘趙趚趛趜趝趞趟趠趡趢趣趤趥趦趧趨趩趪趫趬趭趮趯趰趱趲足趴趵趶趷趸趹趺趻趼趽趾趿跀跁跂跃跄跅跆跇跈跉跊跋跌跍跎跏跐跑跒跓跔跕跖跗跘跙跚跛跜距跞跟跠跡跢跣跤跥跦跧跨跩跪跫跬跭跮路跰跱跲跳跴践跶跷跸跹跺跻跼跽跾跿">>,
      <<36425, "躀躁躂躃躄躅躆躇躈躉躊躋躌躍躎躏躐躑躒躓躔躕躖躗躘躙躚躛躜躝躞躟躠躡躢躣躤躥躦躧躨躩躪身躬躭躮躯躰躱躲躳躴躵躶躷躸躹躺躻躼躽躾躿軀軁軂軃軄軅軆軇軈軉車軋軌軍軎軏軐軑軒軓軔軕軖軗軘軙軚軛軜軝軞軟軠軡転軣軤軥軦軧軨軩軪軫軬軭軮軯軰軱軲軳軴軵軶軷軸軹軺軻軼軽軾軿">>,
      <<36681, "辀辁辂较辄辅辆辇辈辉辊辋辌辍辎辏辐辑辒输辔辕辖辗辘辙辚辛辜辝辞辟辠辡辢辣辤辥辦辧辨辩辪辫辬辭辮辯辰辱農辳辴辵辶辷辸边辺辻込辽达辿迀迁迂迃迄迅迆过迈迉迊迋迌迍迎迏运近迒迓返迕迖迗还这迚进远违连迟迠迡迢迣迤迥迦迧迨迩迪迫迬迭迮迯述迱迲迳迴迵迶迷迸迹迺迻迼追迾迿">>,
      <<36937, "邀邁邂邃還邅邆邇邈邉邊邋邌邍邎邏邐邑邒邓邔邕邖邗邘邙邚邛邜邝邞邟邠邡邢那邤邥邦邧邨邩邪邫邬邭邮邯邰邱邲邳邴邵邶邷邸邹邺邻邼邽邾邿郀郁郂郃郄郅郆郇郈郉郊郋郌郍郎郏郐郑郒郓郔郕郖郗郘郙郚郛郜郝郞郟郠郡郢郣郤郥郦郧部郩郪郫郬郭郮郯郰郱郲郳郴郵郶郷郸郹郺郻郼都郾郿">>,
      <<37193, "醀醁醂醃醄醅醆醇醈醉醊醋醌醍醎醏醐醑醒醓醔醕醖醗醘醙醚醛醜醝醞醟醠醡醢醣醤醥醦醧醨醩醪醫醬醭醮醯醰醱醲醳醴醵醶醷醸醹醺醻醼醽醾醿釀釁釂釃釄釅釆采釈釉释釋里重野量釐金釒釓釔釕釖釗釘釙釚釛釜針釞釟釠釡釢釣釤釥釦釧釨釩釪釫釬釭釮釯釰釱釲釳釴釵釶釷釸釹釺釻釼釽釾釿">>,
      <<37449, "銀銁銂銃銄銅銆銇銈銉銊銋銌銍銎銏銐銑銒銓銔銕銖銗銘銙銚銛銜銝銞銟銠銡銢銣銤銥銦銧銨銩銪銫銬銭銮銯銰銱銲銳銴銵銶銷銸銹銺銻銼銽銾銿鋀鋁鋂鋃鋄鋅鋆鋇鋈鋉鋊鋋鋌鋍鋎鋏鋐鋑鋒鋓鋔鋕鋖鋗鋘鋙鋚鋛鋜鋝鋞鋟鋠鋡鋢鋣鋤鋥鋦鋧鋨鋩鋪鋫鋬鋭鋮鋯鋰鋱鋲鋳鋴鋵鋶鋷鋸鋹鋺鋻鋼鋽鋾鋿">>,
      <<37705, "鎀鎁鎂鎃鎄鎅鎆鎇鎈鎉鎊鎋鎌鎍鎎鎏鎐鎑鎒鎓鎔鎕鎖鎗鎘鎙鎚鎛鎜鎝鎞鎟鎠鎡鎢鎣鎤鎥鎦鎧鎨鎩鎪鎫鎬鎭鎮鎯鎰鎱鎲鎳鎴鎵鎶鎷鎸鎹鎺鎻鎼鎽鎾鎿鏀鏁鏂鏃鏄鏅鏆鏇鏈鏉鏊鏋鏌鏍鏎鏏鏐鏑鏒鏓鏔鏕鏖鏗鏘鏙鏚鏛鏜鏝鏞鏟鏠鏡鏢鏣鏤鏥鏦鏧鏨鏩鏪鏫鏬鏭鏮鏯鏰鏱鏲鏳鏴鏵鏶鏷鏸鏹鏺鏻鏼鏽鏾鏿">>,
      <<37961, "钀钁钂钃钄钅钆钇针钉钊钋钌钍钎钏钐钑钒钓钔钕钖钗钘钙钚钛钜钝钞钟钠钡钢钣钤钥钦钧钨钩钪钫钬钭钮钯钰钱钲钳钴钵钶钷钸钹钺钻钼钽钾钿铀铁铂铃铄铅铆铇铈铉铊铋铌铍铎铏铐铑铒铓铔铕铖铗铘铙铚铛铜铝铞铟铠铡铢铣铤铥铦铧铨铩铪铫铬铭铮铯铰铱铲铳铴铵银铷铸铹铺铻铼铽链铿">>,
      <<38217, "門閁閂閃閄閅閆閇閈閉閊開閌閍閎閏閐閑閒間閔閕閖閗閘閙閚閛閜閝閞閟閠閡関閣閤閥閦閧閨閩閪閫閬閭閮閯閰閱閲閳閴閵閶閷閸閹閺閻閼閽閾閿闀闁闂闃闄闅闆闇闈闉闊闋闌闍闎闏闐闑闒闓闔闕闖闗闘闙闚闛關闝闞闟闠闡闢闣闤闥闦闧门闩闪闫闬闭问闯闰闱闲闳间闵闶闷闸闹闺闻闼闽闾闿">>,
      <<38473, "隀隁隂隃隄隅隆隇隈隉隊隋隌隍階随隐隑隒隓隔隕隖隗隘隙隚際障隝隞隟隠隡隢隣隤隥隦隧隨隩險隫隬隭隮隯隰隱隲隳隴隵隶隷隸隹隺隻隼隽难隿雀雁雂雃雄雅集雇雈雉雊雋雌雍雎雏雐雑雒雓雔雕雖雗雘雙雚雛雜雝雞雟雠雡離難雤雥雦雧雨雩雪雫雬雭雮雯雰雱雲雳雴雵零雷雸雹雺電雼雽雾雿">>,
      <<38729, "鞀鞁鞂鞃鞄鞅鞆鞇鞈鞉鞊鞋鞌鞍鞎鞏鞐鞑鞒鞓鞔鞕鞖鞗鞘鞙鞚鞛鞜鞝鞞鞟鞠鞡鞢鞣鞤鞥鞦鞧鞨鞩鞪鞫鞬鞭鞮鞯鞰鞱鞲鞳鞴鞵鞶鞷鞸鞹鞺鞻鞼鞽鞾鞿韀韁韂韃韄韅韆韇韈韉韊韋韌韍韎韏韐韑韒韓韔韕韖韗韘韙韚韛韜韝韞韟韠韡韢韣韤韥韦韧韨韩韪韫韬韭韮韯韰韱韲音韴韵韶韷韸韹韺韻韼韽韾響">>,
      <<38985, "颀颁颂颃预颅领颇颈颉颊颋颌颍颎颏颐频颒颓颔颕颖颗题颙颚颛颜额颞颟颠颡颢颣颤颥颦颧風颩颪颫颬颭颮颯颰颱颲颳颴颵颶颷颸颹颺颻颼颽颾颿飀飁飂飃飄飅飆飇飈飉飊飋飌飍风飏飐飑飒飓飔飕飖飗飘飙飚飛飜飝飞食飠飡飢飣飤飥飦飧飨飩飪飫飬飭飮飯飰飱飲飳飴飵飶飷飸飹飺飻飼飽飾飿">>,
      <<39241, "馀馁馂馃馄馅馆馇馈馉馊馋馌馍馎馏馐馑馒馓馔馕首馗馘香馚馛馜馝馞馟馠馡馢馣馤馥馦馧馨馩馪馫馬馭馮馯馰馱馲馳馴馵馶馷馸馹馺馻馼馽馾馿駀駁駂駃駄駅駆駇駈駉駊駋駌駍駎駏駐駑駒駓駔駕駖駗駘駙駚駛駜駝駞駟駠駡駢駣駤駥駦駧駨駩駪駫駬駭駮駯駰駱駲駳駴駵駶駷駸駹駺駻駼駽駾駿">>,
      <<39497, "骀骁骂骃骄骅骆骇骈骉骊骋验骍骎骏骐骑骒骓骔骕骖骗骘骙骚骛骜骝骞骟骠骡骢骣骤骥骦骧骨骩骪骫骬骭骮骯骰骱骲骳骴骵骶骷骸骹骺骻骼骽骾骿髀髁髂髃髄髅髆髇髈髉髊髋髌髍髎髏髐髑髒髓體髕髖髗高髙髚髛髜髝髞髟髠髡髢髣髤髥髦髧髨髩髪髫髬髭髮髯髰髱髲髳髴髵髶髷髸髹髺髻髼髽髾髿">>,
      <<39753, "鮀鮁鮂鮃鮄鮅鮆鮇鮈鮉鮊鮋鮌鮍鮎鮏鮐鮑鮒鮓鮔鮕鮖鮗鮘鮙鮚鮛鮜鮝鮞鮟鮠鮡鮢鮣鮤鮥鮦鮧鮨鮩鮪鮫鮬鮭鮮鮯鮰鮱鮲鮳鮴鮵鮶鮷鮸鮹鮺鮻鮼鮽鮾鮿鯀鯁鯂鯃鯄鯅鯆鯇鯈鯉鯊鯋鯌鯍鯎鯏鯐鯑鯒鯓鯔鯕鯖鯗鯘鯙鯚鯛鯜鯝鯞鯟鯠鯡鯢鯣鯤鯥鯦鯧鯨鯩鯪鯫鯬鯭鯮鯯鯰鯱鯲鯳鯴鯵鯶鯷鯸鯹鯺鯻鯼鯽鯾鯿">>,
      <<40009, "鲀鲁鲂鲃鲄鲅鲆鲇鲈鲉鲊鲋鲌鲍鲎鲏鲐鲑鲒鲓鲔鲕鲖鲗鲘鲙鲚鲛鲜鲝鲞鲟鲠鲡鲢鲣鲤鲥鲦鲧鲨鲩鲪鲫鲬鲭鲮鲯鲰鲱鲲鲳鲴鲵鲶鲷鲸鲹鲺鲻鲼鲽鲾鲿鳀鳁鳂鳃鳄鳅鳆鳇鳈鳉鳊鳋鳌鳍鳎鳏鳐鳑鳒鳓鳔鳕鳖鳗鳘鳙鳚鳛鳜鳝鳞鳟鳠鳡鳢鳣鳤鳥鳦鳧鳨鳩鳪鳫鳬鳭鳮鳯鳰鳱鳲鳳鳴鳵鳶鳷鳸鳹鳺鳻鳼鳽鳾鳿">>,
      <<40265, "鶀鶁鶂鶃鶄鶅鶆鶇鶈鶉鶊鶋鶌鶍鶎鶏鶐鶑鶒鶓鶔鶕鶖鶗鶘鶙鶚鶛鶜鶝鶞鶟鶠鶡鶢鶣鶤鶥鶦鶧鶨鶩鶪鶫鶬鶭鶮鶯鶰鶱鶲鶳鶴鶵鶶鶷鶸鶹鶺鶻鶼鶽鶾鶿鷀鷁鷂鷃鷄鷅鷆鷇鷈鷉鷊鷋鷌鷍鷎鷏鷐鷑鷒鷓鷔鷕鷖鷗鷘鷙鷚鷛鷜鷝鷞鷟鷠鷡鷢鷣鷤鷥鷦鷧鷨鷩鷪鷫鷬鷭鷮鷯鷰鷱鷲鷳鷴鷵鷶鷷鷸鷹鷺鷻鷼鷽鷾鷿">>,
      <<40521, "麀麁麂麃麄麅麆麇麈麉麊麋麌麍麎麏麐麑麒麓麔麕麖麗麘麙麚麛麜麝麞麟麠麡麢麣麤麥麦麧麨麩麪麫麬麭麮麯麰麱麲麳麴麵麶麷麸麹麺麻麼麽麾麿黀黁黂黃黄黅黆黇黈黉黊黋黌黍黎黏黐黑黒黓黔黕黖黗默黙黚黛黜黝點黟黠黡黢黣黤黥黦黧黨黩黪黫黬黭黮黯黰黱黲黳黴黵黶黷黸黹黺黻黼黽黾黿">>,
      <<40777, "龀龁龂龃龄龅龆龇龈龉龊龋龌龍龎龏龐龑龒龓龔龕龖龗龘龙龚龛龜龝龞龟龠龡龢龣龤龥龦龧龨龩龪龫龬龭龮龯龰龱龲龳龴龵龶龷龸龹龺龻龼龽龾龿鿀鿁鿂鿃鿄鿅鿆鿇鿈鿉鿊鿋鿌鿍鿎鿏鿐鿑鿒鿓鿔鿕鿖鿗鿘鿙鿚鿛鿜鿝鿞鿟鿠鿡鿢鿣鿤鿥鿦鿧鿨鿩鿪鿫鿬鿭鿮鿯鿰鿱鿲鿳鿴鿵鿶鿷鿸鿹鿺鿻鿼鿽鿾鿿">>,
      <<41033, "ꂀꂁꂂꂃꂄꂅꂆꂇꂈꂉꂊꂋꂌꂍꂎꂏꂐꂑꂒꂓꂔꂕꂖꂗꂘꂙꂚꂛꂜꂝꂞꂟꂠꂡꂢꂣꂤꂥꂦꂧꂨꂩꂪꂫꂬꂭꂮꂯꂰꂱꂲꂳꂴꂵꂶꂷꂸꂹꂺꂻꂼꂽꂾꂿꃀꃁꃂꃃꃄꃅꃆꃇꃈꃉꃊꃋꃌꃍꃎꃏꃐꃑꃒꃓꃔꃕꃖꃗꃘꃙꃚꃛꃜꃝꃞꃟꃠꃡꃢꃣꃤꃥꃦꃧꃨꃩꃪꃫꃬꃭꃮꃯꃰꃱꃲꃳꃴꃵꃶꃷꃸꃹꃺꃻꃼꃽꃾꃿ">>,
      <<41289, "ꆀꆁꆂꆃꆄꆅꆆꆇꆈꆉꆊꆋꆌꆍꆎꆏꆐꆑꆒꆓꆔꆕꆖꆗꆘꆙꆚꆛꆜꆝꆞꆟꆠꆡꆢꆣꆤꆥꆦꆧꆨꆩꆪꆫꆬꆭꆮꆯꆰꆱꆲꆳꆴꆵꆶꆷꆸꆹꆺꆻꆼꆽꆾꆿꇀꇁꇂꇃꇄꇅꇆꇇꇈꇉꇊꇋꇌꇍꇎꇏꇐꇑꇒꇓꇔꇕꇖꇗꇘꇙꇚꇛꇜꇝꇞꇟꇠꇡꇢꇣꇤꇥꇦꇧꇨꇩꇪꇫꇬꇭꇮꇯꇰꇱꇲꇳꇴꇵꇶꇷꇸꇹꇺꇻꇼꇽꇾꇿ">>,
      <<41545, "ꊀꊁꊂꊃꊄꊅꊆꊇꊈꊉꊊꊋꊌꊍꊎꊏꊐꊑꊒꊓꊔꊕꊖꊗꊘꊙꊚꊛꊜꊝꊞꊟꊠꊡꊢꊣꊤꊥꊦꊧꊨꊩꊪꊫꊬꊭꊮꊯꊰꊱꊲꊳꊴꊵꊶꊷꊸꊹꊺꊻꊼꊽꊾꊿꋀꋁꋂꋃꋄꋅꋆꋇꋈꋉꋊꋋꋌꋍꋎꋏꋐꋑꋒꋓꋔꋕꋖꋗꋘꋙꋚꋛꋜꋝꋞꋟꋠꋡꋢꋣꋤꋥꋦꋧꋨꋩꋪꋫꋬꋭꋮꋯꋰꋱꋲꋳꋴꋵꋶꋷꋸꋹꋺꋻꋼꋽꋾꋿ">>,
      <<41801, "ꎀꎁꎂꎃꎄꎅꎆꎇꎈꎉꎊꎋꎌꎍꎎꎏꎐꎑꎒꎓꎔꎕꎖꎗꎘꎙꎚꎛꎜꎝꎞꎟꎠꎡꎢꎣꎤꎥꎦꎧꎨꎩꎪꎫꎬꎭꎮꎯꎰꎱꎲꎳꎴꎵꎶꎷꎸꎹꎺꎻꎼꎽꎾꎿꏀꏁꏂꏃꏄꏅꏆꏇꏈꏉꏊꏋꏌꏍꏎꏏꏐꏑꏒꏓꏔꏕꏖꏗꏘꏙꏚꏛꏜꏝꏞꏟꏠꏡꏢꏣꏤꏥꏦꏧꏨꏩꏪꏫꏬꏭꏮꏯꏰꏱꏲꏳꏴꏵꏶꏷꏸꏹꏺꏻꏼꏽꏾꏿ">>,
      <<42057, "ꒀꒁꒂꒃꒄꒅꒆꒇꒈꒉꒊꒋꒌ">>,
      <<42137, "ꓐꓑꓒꓓꓔꓕꓖꓗꓘꓙꓚꓛꓜꓝꓞꓟꓠꓡꓢꓣꓤꓥꓦꓧꓨꓩꓪꓫꓬꓭꓮꓯꓰꓱꓲꓳꓴꓵꓶꓷꓸꓹꓺꓻꓼꓽ">>,
      <<42313, "ꖀꖁꖂꖃꖄꖅꖆꖇꖈꖉꖊꖋꖌꖍꖎꖏꖐꖑꖒꖓꖔꖕꖖꖗꖘꖙꖚꖛꖜꖝꖞꖟꖠꖡꖢꖣꖤꖥꖦꖧꖨꖩꖪꖫꖬꖭꖮꖯꖰꖱꖲꖳꖴꖵꖶꖷꖸꖹꖺꖻꖼꖽꖾꖿꗀꗁꗂꗃꗄꗅꗆꗇꗈꗉꗊꗋꗌꗍꗎꗏꗐꗑꗒꗓꗔꗕꗖꗗꗘꗙꗚꗛꗜꗝꗞꗟꗠꗡꗢꗣꗤꗥꗦꗧꗨꗩꗪꗫꗬꗭꗮꗯꗰꗱꗲꗳꗴꗵꗶꗷꗸꗹꗺꗻꗼꗽꗾꗿ">>,
      <<42569, "Ꚁ">>,
      <<42569, "ꚁ">>,
      <<42571, "Ꚃ">>,
      <<42571, "ꚃ">>,
      <<42573, "Ꚅ">>,
      <<42573, "ꚅ">>,
      <<42575, "Ꚇ">>,
      <<42575, "ꚇ">>,
      <<42577, "Ꚉ">>,
      <<42577, "ꚉ">>,
      <<42579, "Ꚋ">>,
      <<42579, "ꚋ">>,
      <<42581, "Ꚍ">>,
      <<42581, "ꚍ">>,
      <<42583, "Ꚏ">>,
      <<42583, "ꚏ">>,
      <<42585, "Ꚑ">>,
      <<42585, "ꚑ">>,
      <<42587, "Ꚓ">>,
      <<42587, "ꚓ">>,
      <<42589, "Ꚕ">>,
      <<42589, "ꚕ">>,
      <<42591, "Ꚗ">>,
      <<42591, "ꚗ">>,
      <<42593, "Ꚙ">>,
      <<42593, "ꚙ">>,
      <<42595, "Ꚛ">>,
      <<42595, "ꚛ">>,
      <<42597, "ꚜꚝ">>,
      <<42601, "ꚠꚡꚢꚣꚤꚥꚦꚧꚨꚩꚪꚫꚬꚭꚮꚯꚰꚱꚲꚳꚴꚵꚶꚷꚸꚹꚺꚻꚼꚽꚾꚿꛀꛁꛂꛃꛄꛅꛆꛇꛈꛉꛊꛋꛌꛍꛎꛏꛐꛑꛒꛓꛔꛕꛖꛗꛘꛙꛚꛛꛜꛝꛞꛟꛠꛡꛢꛣꛤꛥ">>,
      <<42825, "Ꞁ">>,
      <<42825, "ꞁ">>,
      <<42827, "Ꞃ">>,
      <<42827, "ꞃ">>,
      <<42829, "Ꞅ">>,
      <<42829, "ꞅ">>,
      <<42831, "Ꞇ">>,
      <<42831, "ꞇ">>,
      <<42833, "ꞈ">>,
      <<42836, "Ꞌ">>,
      <<42836, "ꞌ">>,
      <<42838, "ꞍꞎꞏꞐ">>,
      <<42841, "ꞑ">>,
      <<42843, "Ꞓ">>,
      <<42843, "ꞓ">>,
      <<42893, "ꞔ">>,
      <<42846, "ꞕꞖ">>,
      <<42847, "ꞗ">>,
      <<42849, "Ꞙ">>,
      <<42849, "ꞙ">>,
      <<42851, "Ꞛ">>,
      <<42851, "ꞛ">>,
      <<42853, "Ꞝ">>,
      <<42853, "ꞝ">>,
      <<42855, "Ꞟ">>,
      <<42855, "ꞟ">>,
      <<42857, "Ꞡ">>,
      <<42857, "ꞡ">>,
      <<42859, "Ꞣ">>,
      <<42859, "ꞣ">>,
      <<42861, "Ꞥ">>,
      <<42861, "ꞥ">>,
      <<42863, "Ꞧ">>,
      <<42863, "ꞧ">>,
      <<42865, "Ꞩ">>,
      <<42865, "ꞩ">>,
      <<42867, "ꞪꞫꞬꞭꞮꞯꞰꞱꞲꞳꞴ">>,
      <<42877, "ꞵ">>,
      <<42879, "Ꞷ">>,
      <<42879, "ꞷ">>,
      <<42881, "Ꞹ">>,
      <<42881, "ꞹ">>,
      <<42883, "Ꞻ">>,
      <<42883, "ꞻ">>,
      <<42885, "Ꞽ">>,
      <<42885, "ꞽ">>,
      <<42887, "Ꞿ">>,
      <<42887, "ꞿ">>,
      <<42889, "Ꟁ">>,
      <<42889, "ꟁ">>,
      <<42891, "Ꟃ">>,
      <<42891, "ꟃ">>,
      <<42893, "ꟄꟅꟆꟇ">>,
      <<42896, "ꟈ">>,
      <<42898, "Ꟊ">>,
      <<42898, "ꟊ">>,
      <<42905, "Ꟑ">>,
      <<42905, "ꟑ">>,
      <<42908, "ꟓ">>,
      <<42910, "ꟕꟖ">>,
      <<42911, "ꟗ">>,
      <<42913, "Ꟙ">>,
      <<42913, "ꟙ">>,
      <<42939, "ꟲꟳꟴꟵ">>,
      <<42942, "ꟶ">>,
      <<42944, "ꟷꟸꟹꟺꟻꟼꟽꟾꟿ">>,
      <<43083, "ꢂꢃꢄꢅꢆꢇꢈꢉꢊꢋꢌꢍꢎꢏꢐꢑꢒꢓꢔꢕꢖꢗꢘꢙꢚꢛꢜꢝꢞꢟꢠꢡꢢꢣꢤꢥꢦꢧꢨꢩꢪꢫꢬꢭꢮꢯꢰꢱꢲꢳ">>,
      <<43195, "ꣲꣳꣴꣵꣶꣷ">>,
      <<43204, "ꣻ">>,
      <<43206, "ꣽꣾ">>,
      <<43341, "ꦄꦅꦆꦇꦈꦉꦊꦋꦌꦍꦎꦏꦐꦑꦒꦓꦔꦕꦖꦗꦘꦙꦚꦛꦜꦝꦞꦟꦠꦡꦢꦣꦤꦥꦦꦧꦨꦩꦪꦫꦬꦭꦮꦯꦰꦱꦲ">>,
      <<43416, "ꧏ">>,
      <<43433, "ꧠꧡꧢꧣꧤ">>,
      <<43439, "ꧦꧧꧨꧩꧪꧫꧬꧭꧮꧯ">>,
      <<43459, "ꧺꧻꧼꧽꧾ">>,
      <<43593, "ꪀꪁꪂꪃꪄꪅꪆꪇꪈꪉꪊꪋꪌꪍꪎꪏꪐꪑꪒꪓꪔꪕꪖꪗꪘꪙꪚꪛꪜꪝꪞꪟꪠꪡꪢꪣꪤꪥꪦꪧꪨꪩꪪꪫꪬꪭꪮꪯ">>,
      <<43642, "ꪱ">>,
      <<43646, "ꪵꪶ">>,
      <<43650, "ꪹꪺꪻꪼꪽ">>,
      <<43657, "ꫀ">>,
      <<43659, "ꫂ">>,
      <<43684, "ꫛꫜꫝ">>,
      <<43689, "ꫠꫡꫢꫣꫤꫥꫦꫧꫨꫩꫪ">>,
      <<43707, "ꫲꫳꫴ">>,
      <<4985, "ꮀꮁꮂꮃꮄꮅꮆꮇꮈꮉꮊꮋꮌꮍꮎꮏꮐꮑꮒꮓꮔꮕꮖꮗꮘꮙꮚꮛꮜꮝꮞꮟꮠꮡꮢꮣꮤꮥꮦꮧꮨꮩꮪꮫꮬꮭꮮꮯꮰꮱꮲꮳꮴꮵꮶꮷꮸꮹꮺꮻꮼꮽꮾꮿ">>,
      <<43913, "ꯀꯁꯂꯃꯄꯅꯆꯇꯈꯉꯊꯋꯌꯍꯎꯏꯐꯑꯒꯓꯔꯕꯖꯗꯘꯙꯚꯛꯜꯝꯞꯟꯠꯡꯢ">>,
      <<44105, "검겁겂것겄겅겆겇겈겉겊겋게겍겎겏겐겑겒겓겔겕겖겗겘겙겚겛겜겝겞겟겠겡겢겣겤겥겦겧겨격겪겫견겭겮겯결겱겲겳겴겵겶겷겸겹겺겻겼경겾겿곀곁곂곃계곅곆곇곈곉곊곋곌곍곎곏곐곑곒곓곔곕곖곗곘곙곚곛곜곝곞곟고곡곢곣곤곥곦곧골곩곪곫곬곭곮곯곰곱곲곳곴공곶곷곸곹곺곻과곽곾곿">>,
      <<44361, "궀궁궂궃궄궅궆궇궈궉궊궋권궍궎궏궐궑궒궓궔궕궖궗궘궙궚궛궜궝궞궟궠궡궢궣궤궥궦궧궨궩궪궫궬궭궮궯궰궱궲궳궴궵궶궷궸궹궺궻궼궽궾궿귀귁귂귃귄귅귆귇귈귉귊귋귌귍귎귏귐귑귒귓귔귕귖귗귘귙귚귛규귝귞귟균귡귢귣귤귥귦귧귨귩귪귫귬귭귮귯귰귱귲귳귴귵귶귷그극귺귻근귽귾귿">>,
      <<44617, "꺀꺁꺂꺃꺄꺅꺆꺇꺈꺉꺊꺋꺌꺍꺎꺏꺐꺑꺒꺓꺔꺕꺖꺗꺘꺙꺚꺛꺜꺝꺞꺟꺠꺡꺢꺣꺤꺥꺦꺧꺨꺩꺪꺫꺬꺭꺮꺯꺰꺱꺲꺳꺴꺵꺶꺷꺸꺹꺺꺻꺼꺽꺾꺿껀껁껂껃껄껅껆껇껈껉껊껋껌껍껎껏껐껑껒껓껔껕껖껗께껙껚껛껜껝껞껟껠껡껢껣껤껥껦껧껨껩껪껫껬껭껮껯껰껱껲껳껴껵껶껷껸껹껺껻껼껽껾껿">>,
      <<44873, "꾀꾁꾂꾃꾄꾅꾆꾇꾈꾉꾊꾋꾌꾍꾎꾏꾐꾑꾒꾓꾔꾕꾖꾗꾘꾙꾚꾛꾜꾝꾞꾟꾠꾡꾢꾣꾤꾥꾦꾧꾨꾩꾪꾫꾬꾭꾮꾯꾰꾱꾲꾳꾴꾵꾶꾷꾸꾹꾺꾻꾼꾽꾾꾿꿀꿁꿂꿃꿄꿅꿆꿇꿈꿉꿊꿋꿌꿍꿎꿏꿐꿑꿒꿓꿔꿕꿖꿗꿘꿙꿚꿛꿜꿝꿞꿟꿠꿡꿢꿣꿤꿥꿦꿧꿨꿩꿪꿫꿬꿭꿮꿯꿰꿱꿲꿳꿴꿵꿶꿷꿸꿹꿺꿻꿼꿽꿾꿿">>,
      <<45129, "낀낁낂낃낄낅낆낇낈낉낊낋낌낍낎낏낐낑낒낓낔낕낖낗나낙낚낛난낝낞낟날낡낢낣낤낥낦낧남납낪낫났낭낮낯낰낱낲낳내낵낶낷낸낹낺낻낼낽낾낿냀냁냂냃냄냅냆냇냈냉냊냋냌냍냎냏냐냑냒냓냔냕냖냗냘냙냚냛냜냝냞냟냠냡냢냣냤냥냦냧냨냩냪냫냬냭냮냯냰냱냲냳냴냵냶냷냸냹냺냻냼냽냾냿">>,
      <<45385, "놀놁놂놃놄놅놆놇놈놉놊놋놌농놎놏놐놑높놓놔놕놖놗놘놙놚놛놜놝놞놟놠놡놢놣놤놥놦놧놨놩놪놫놬놭놮놯놰놱놲놳놴놵놶놷놸놹놺놻놼놽놾놿뇀뇁뇂뇃뇄뇅뇆뇇뇈뇉뇊뇋뇌뇍뇎뇏뇐뇑뇒뇓뇔뇕뇖뇗뇘뇙뇚뇛뇜뇝뇞뇟뇠뇡뇢뇣뇤뇥뇦뇧뇨뇩뇪뇫뇬뇭뇮뇯뇰뇱뇲뇳뇴뇵뇶뇷뇸뇹뇺뇻뇼뇽뇾뇿">>,
      <<45641, "늀늁늂늃늄늅늆늇늈늉늊늋늌늍늎늏느늑늒늓는늕늖늗늘늙늚늛늜늝늞늟늠늡늢늣늤능늦늧늨늩늪늫늬늭늮늯늰늱늲늳늴늵늶늷늸늹늺늻늼늽늾늿닀닁닂닃닄닅닆닇니닉닊닋닌닍닎닏닐닑닒닓닔닕닖닗님닙닚닛닜닝닞닟닠닡닢닣다닥닦닧단닩닪닫달닭닮닯닰닱닲닳담답닶닷닸당닺닻닼닽닾닿">>,
      <<45897, "뎀뎁뎂뎃뎄뎅뎆뎇뎈뎉뎊뎋뎌뎍뎎뎏뎐뎑뎒뎓뎔뎕뎖뎗뎘뎙뎚뎛뎜뎝뎞뎟뎠뎡뎢뎣뎤뎥뎦뎧뎨뎩뎪뎫뎬뎭뎮뎯뎰뎱뎲뎳뎴뎵뎶뎷뎸뎹뎺뎻뎼뎽뎾뎿돀돁돂돃도독돆돇돈돉돊돋돌돍돎돏돐돑돒돓돔돕돖돗돘동돚돛돜돝돞돟돠돡돢돣돤돥돦돧돨돩돪돫돬돭돮돯돰돱돲돳돴돵돶돷돸돹돺돻돼돽돾돿">>,
      <<46153, "뒀뒁뒂뒃뒄뒅뒆뒇뒈뒉뒊뒋뒌뒍뒎뒏뒐뒑뒒뒓뒔뒕뒖뒗뒘뒙뒚뒛뒜뒝뒞뒟뒠뒡뒢뒣뒤뒥뒦뒧뒨뒩뒪뒫뒬뒭뒮뒯뒰뒱뒲뒳뒴뒵뒶뒷뒸뒹뒺뒻뒼뒽뒾뒿듀듁듂듃듄듅듆듇듈듉듊듋듌듍듎듏듐듑듒듓듔듕듖듗듘듙듚듛드득듞듟든듡듢듣들듥듦듧듨듩듪듫듬듭듮듯듰등듲듳듴듵듶듷듸듹듺듻듼듽듾듿">>,
      <<46409, "떀떁떂떃떄떅떆떇떈떉떊떋떌떍떎떏떐떑떒떓떔떕떖떗떘떙떚떛떜떝떞떟떠떡떢떣떤떥떦떧떨떩떪떫떬떭떮떯떰떱떲떳떴떵떶떷떸떹떺떻떼떽떾떿뗀뗁뗂뗃뗄뗅뗆뗇뗈뗉뗊뗋뗌뗍뗎뗏뗐뗑뗒뗓뗔뗕뗖뗗뗘뗙뗚뗛뗜뗝뗞뗟뗠뗡뗢뗣뗤뗥뗦뗧뗨뗩뗪뗫뗬뗭뗮뗯뗰뗱뗲뗳뗴뗵뗶뗷뗸뗹뗺뗻뗼뗽뗾뗿">>,
      <<46665, "뚀뚁뚂뚃뚄뚅뚆뚇뚈뚉뚊뚋뚌뚍뚎뚏뚐뚑뚒뚓뚔뚕뚖뚗뚘뚙뚚뚛뚜뚝뚞뚟뚠뚡뚢뚣뚤뚥뚦뚧뚨뚩뚪뚫뚬뚭뚮뚯뚰뚱뚲뚳뚴뚵뚶뚷뚸뚹뚺뚻뚼뚽뚾뚿뛀뛁뛂뛃뛄뛅뛆뛇뛈뛉뛊뛋뛌뛍뛎뛏뛐뛑뛒뛓뛔뛕뛖뛗뛘뛙뛚뛛뛜뛝뛞뛟뛠뛡뛢뛣뛤뛥뛦뛧뛨뛩뛪뛫뛬뛭뛮뛯뛰뛱뛲뛳뛴뛵뛶뛷뛸뛹뛺뛻뛼뛽뛾뛿">>,
      <<46921, "란랁랂랃랄랅랆랇랈랉랊랋람랍랎랏랐랑랒랓랔랕랖랗래랙랚랛랜랝랞랟랠랡랢랣랤랥랦랧램랩랪랫랬랭랮랯랰랱랲랳랴략랶랷랸랹랺랻랼랽랾랿럀럁럂럃럄럅럆럇럈량럊럋럌럍럎럏럐럑럒럓럔럕럖럗럘럙럚럛럜럝럞럟럠럡럢럣럤럥럦럧럨럩럪럫러럭럮럯런럱럲럳럴럵럶럷럸럹럺럻럼럽럾럿">>,
      <<47177, "뢀뢁뢂뢃뢄뢅뢆뢇뢈뢉뢊뢋뢌뢍뢎뢏뢐뢑뢒뢓뢔뢕뢖뢗뢘뢙뢚뢛뢜뢝뢞뢟뢠뢡뢢뢣뢤뢥뢦뢧뢨뢩뢪뢫뢬뢭뢮뢯뢰뢱뢲뢳뢴뢵뢶뢷뢸뢹뢺뢻뢼뢽뢾뢿룀룁룂룃룄룅룆룇룈룉룊룋료룍룎룏룐룑룒룓룔룕룖룗룘룙룚룛룜룝룞룟룠룡룢룣룤룥룦룧루룩룪룫룬룭룮룯룰룱룲룳룴룵룶룷룸룹룺룻룼룽룾룿">>,
      <<47433, "릀릁릂릃름릅릆릇릈릉릊릋릌릍릎릏릐릑릒릓릔릕릖릗릘릙릚릛릜릝릞릟릠릡릢릣릤릥릦릧릨릩릪릫리릭릮릯린릱릲릳릴릵릶릷릸릹릺릻림립릾릿맀링맂맃맄맅맆맇마막맊맋만맍많맏말맑맒맓맔맕맖맗맘맙맚맛맜망맞맟맠맡맢맣매맥맦맧맨맩맪맫맬맭맮맯맰맱맲맳맴맵맶맷맸맹맺맻맼맽맾맿">>,
      <<47689, "몀몁몂몃몄명몆몇몈몉몊몋몌몍몎몏몐몑몒몓몔몕몖몗몘몙몚몛몜몝몞몟몠몡몢몣몤몥몦몧모목몪몫몬몭몮몯몰몱몲몳몴몵몶몷몸몹몺못몼몽몾몿뫀뫁뫂뫃뫄뫅뫆뫇뫈뫉뫊뫋뫌뫍뫎뫏뫐뫑뫒뫓뫔뫕뫖뫗뫘뫙뫚뫛뫜뫝뫞뫟뫠뫡뫢뫣뫤뫥뫦뫧뫨뫩뫪뫫뫬뫭뫮뫯뫰뫱뫲뫳뫴뫵뫶뫷뫸뫹뫺뫻뫼뫽뫾뫿">>,
      <<47945, "뮀뮁뮂뮃뮄뮅뮆뮇뮈뮉뮊뮋뮌뮍뮎뮏뮐뮑뮒뮓뮔뮕뮖뮗뮘뮙뮚뮛뮜뮝뮞뮟뮠뮡뮢뮣뮤뮥뮦뮧뮨뮩뮪뮫뮬뮭뮮뮯뮰뮱뮲뮳뮴뮵뮶뮷뮸뮹뮺뮻뮼뮽뮾뮿므믁믂믃믄믅믆믇믈믉믊믋믌믍믎믏믐믑믒믓믔믕믖믗믘믙믚믛믜믝믞믟믠믡믢믣믤믥믦믧믨믩믪믫믬믭믮믯믰믱믲믳믴믵믶믷미믹믺믻민믽믾믿">>,
      <<48201, "벀벁벂벃버벅벆벇번벉벊벋벌벍벎벏벐벑벒벓범법벖벗벘벙벚벛벜벝벞벟베벡벢벣벤벥벦벧벨벩벪벫벬벭벮벯벰벱벲벳벴벵벶벷벸벹벺벻벼벽벾벿변볁볂볃별볅볆볇볈볉볊볋볌볍볎볏볐병볒볓볔볕볖볗볘볙볚볛볜볝볞볟볠볡볢볣볤볥볦볧볨볩볪볫볬볭볮볯볰볱볲볳보복볶볷본볹볺볻볼볽볾볿">>,
      <<48457, "부북붂붃분붅붆붇불붉붊붋붌붍붎붏붐붑붒붓붔붕붖붗붘붙붚붛붜붝붞붟붠붡붢붣붤붥붦붧붨붩붪붫붬붭붮붯붰붱붲붳붴붵붶붷붸붹붺붻붼붽붾붿뷀뷁뷂뷃뷄뷅뷆뷇뷈뷉뷊뷋뷌뷍뷎뷏뷐뷑뷒뷓뷔뷕뷖뷗뷘뷙뷚뷛뷜뷝뷞뷟뷠뷡뷢뷣뷤뷥뷦뷧뷨뷩뷪뷫뷬뷭뷮뷯뷰뷱뷲뷳뷴뷵뷶뷷뷸뷹뷺뷻뷼뷽뷾뷿">>,
      <<48713, "뺀뺁뺂뺃뺄뺅뺆뺇뺈뺉뺊뺋뺌뺍뺎뺏뺐뺑뺒뺓뺔뺕뺖뺗뺘뺙뺚뺛뺜뺝뺞뺟뺠뺡뺢뺣뺤뺥뺦뺧뺨뺩뺪뺫뺬뺭뺮뺯뺰뺱뺲뺳뺴뺵뺶뺷뺸뺹뺺뺻뺼뺽뺾뺿뻀뻁뻂뻃뻄뻅뻆뻇뻈뻉뻊뻋뻌뻍뻎뻏뻐뻑뻒뻓뻔뻕뻖뻗뻘뻙뻚뻛뻜뻝뻞뻟뻠뻡뻢뻣뻤뻥뻦뻧뻨뻩뻪뻫뻬뻭뻮뻯뻰뻱뻲뻳뻴뻵뻶뻷뻸뻹뻺뻻뻼뻽뻾뻿">>,
      <<48969, "뾀뾁뾂뾃뾄뾅뾆뾇뾈뾉뾊뾋뾌뾍뾎뾏뾐뾑뾒뾓뾔뾕뾖뾗뾘뾙뾚뾛뾜뾝뾞뾟뾠뾡뾢뾣뾤뾥뾦뾧뾨뾩뾪뾫뾬뾭뾮뾯뾰뾱뾲뾳뾴뾵뾶뾷뾸뾹뾺뾻뾼뾽뾾뾿뿀뿁뿂뿃뿄뿅뿆뿇뿈뿉뿊뿋뿌뿍뿎뿏뿐뿑뿒뿓뿔뿕뿖뿗뿘뿙뿚뿛뿜뿝뿞뿟뿠뿡뿢뿣뿤뿥뿦뿧뿨뿩뿪뿫뿬뿭뿮뿯뿰뿱뿲뿳뿴뿵뿶뿷뿸뿹뿺뿻뿼뿽뿾뿿">>,
      <<49225, "삀삁삂삃삄삅삆삇삈삉삊삋삌삍삎삏삐삑삒삓삔삕삖삗삘삙삚삛삜삝삞삟삠삡삢삣삤삥삦삧삨삩삪삫사삭삮삯산삱삲삳살삵삶삷삸삹삺삻삼삽삾삿샀상샂샃샄샅샆샇새색샊샋샌샍샎샏샐샑샒샓샔샕샖샗샘샙샚샛샜생샞샟샠샡샢샣샤샥샦샧샨샩샪샫샬샭샮샯샰샱샲샳샴샵샶샷샸샹샺샻샼샽샾샿">>,
      <<49481, "솀솁솂솃솄솅솆솇솈솉솊솋소속솎솏손솑솒솓솔솕솖솗솘솙솚솛솜솝솞솟솠송솢솣솤솥솦솧솨솩솪솫솬솭솮솯솰솱솲솳솴솵솶솷솸솹솺솻솼솽솾솿쇀쇁쇂쇃쇄쇅쇆쇇쇈쇉쇊쇋쇌쇍쇎쇏쇐쇑쇒쇓쇔쇕쇖쇗쇘쇙쇚쇛쇜쇝쇞쇟쇠쇡쇢쇣쇤쇥쇦쇧쇨쇩쇪쇫쇬쇭쇮쇯쇰쇱쇲쇳쇴쇵쇶쇷쇸쇹쇺쇻쇼쇽쇾쇿">>,
      <<49737, "슀슁슂슃슄슅슆슇슈슉슊슋슌슍슎슏슐슑슒슓슔슕슖슗슘슙슚슛슜슝슞슟슠슡슢슣스슥슦슧슨슩슪슫슬슭슮슯슰슱슲슳슴습슶슷슸승슺슻슼슽슾슿싀싁싂싃싄싅싆싇싈싉싊싋싌싍싎싏싐싑싒싓싔싕싖싗싘싙싚싛시식싞싟신싡싢싣실싥싦싧싨싩싪싫심십싮싯싰싱싲싳싴싵싶싷싸싹싺싻싼싽싾싿">>,
      <<49993, "쎀쎁쎂쎃쎄쎅쎆쎇쎈쎉쎊쎋쎌쎍쎎쎏쎐쎑쎒쎓쎔쎕쎖쎗쎘쎙쎚쎛쎜쎝쎞쎟쎠쎡쎢쎣쎤쎥쎦쎧쎨쎩쎪쎫쎬쎭쎮쎯쎰쎱쎲쎳쎴쎵쎶쎷쎸쎹쎺쎻쎼쎽쎾쎿쏀쏁쏂쏃쏄쏅쏆쏇쏈쏉쏊쏋쏌쏍쏎쏏쏐쏑쏒쏓쏔쏕쏖쏗쏘쏙쏚쏛쏜쏝쏞쏟쏠쏡쏢쏣쏤쏥쏦쏧쏨쏩쏪쏫쏬쏭쏮쏯쏰쏱쏲쏳쏴쏵쏶쏷쏸쏹쏺쏻쏼쏽쏾쏿">>,
      <<50249, "쒀쒁쒂쒃쒄쒅쒆쒇쒈쒉쒊쒋쒌쒍쒎쒏쒐쒑쒒쒓쒔쒕쒖쒗쒘쒙쒚쒛쒜쒝쒞쒟쒠쒡쒢쒣쒤쒥쒦쒧쒨쒩쒪쒫쒬쒭쒮쒯쒰쒱쒲쒳쒴쒵쒶쒷쒸쒹쒺쒻쒼쒽쒾쒿쓀쓁쓂쓃쓄쓅쓆쓇쓈쓉쓊쓋쓌쓍쓎쓏쓐쓑쓒쓓쓔쓕쓖쓗쓘쓙쓚쓛쓜쓝쓞쓟쓠쓡쓢쓣쓤쓥쓦쓧쓨쓩쓪쓫쓬쓭쓮쓯쓰쓱쓲쓳쓴쓵쓶쓷쓸쓹쓺쓻쓼쓽쓾쓿">>,
      <<50505, "얀얁얂얃얄얅얆얇얈얉얊얋얌얍얎얏얐양얒얓얔얕얖얗얘얙얚얛얜얝얞얟얠얡얢얣얤얥얦얧얨얩얪얫얬얭얮얯얰얱얲얳어억얶얷언얹얺얻얼얽얾얿엀엁엂엃엄업없엇었엉엊엋엌엍엎엏에엑엒엓엔엕엖엗엘엙엚엛엜엝엞엟엠엡엢엣엤엥엦엧엨엩엪엫여역엮엯연엱엲엳열엵엶엷엸엹엺엻염엽엾엿">>,
      <<50761, "욀욁욂욃욄욅욆욇욈욉욊욋욌욍욎욏욐욑욒욓요욕욖욗욘욙욚욛욜욝욞욟욠욡욢욣욤욥욦욧욨용욪욫욬욭욮욯우욱욲욳운욵욶욷울욹욺욻욼욽욾욿움웁웂웃웄웅웆웇웈웉웊웋워웍웎웏원웑웒웓월웕웖웗웘웙웚웛웜웝웞웟웠웡웢웣웤웥웦웧웨웩웪웫웬웭웮웯웰웱웲웳웴웵웶웷웸웹웺웻웼웽웾웿">>,
      <<51017, "잀잁잂잃임입잆잇있잉잊잋잌잍잎잏자작잒잓잔잕잖잗잘잙잚잛잜잝잞잟잠잡잢잣잤장잦잧잨잩잪잫재잭잮잯잰잱잲잳잴잵잶잷잸잹잺잻잼잽잾잿쟀쟁쟂쟃쟄쟅쟆쟇쟈쟉쟊쟋쟌쟍쟎쟏쟐쟑쟒쟓쟔쟕쟖쟗쟘쟙쟚쟛쟜쟝쟞쟟쟠쟡쟢쟣쟤쟥쟦쟧쟨쟩쟪쟫쟬쟭쟮쟯쟰쟱쟲쟳쟴쟵쟶쟷쟸쟹쟺쟻쟼쟽쟾쟿">>,
      <<51273, "좀좁좂좃좄종좆좇좈좉좊좋좌좍좎좏좐좑좒좓좔좕좖좗좘좙좚좛좜좝좞좟좠좡좢좣좤좥좦좧좨좩좪좫좬좭좮좯좰좱좲좳좴좵좶좷좸좹좺좻좼좽좾좿죀죁죂죃죄죅죆죇죈죉죊죋죌죍죎죏죐죑죒죓죔죕죖죗죘죙죚죛죜죝죞죟죠죡죢죣죤죥죦죧죨죩죪죫죬죭죮죯죰죱죲죳죴죵죶죷죸죹죺죻주죽죾죿">>,
      <<51529, "즀즁즂즃즄즅즆즇즈즉즊즋즌즍즎즏즐즑즒즓즔즕즖즗즘즙즚즛즜증즞즟즠즡즢즣즤즥즦즧즨즩즪즫즬즭즮즯즰즱즲즳즴즵즶즷즸즹즺즻즼즽즾즿지직짂짃진짅짆짇질짉짊짋짌짍짎짏짐집짒짓짔징짖짗짘짙짚짛짜짝짞짟짠짡짢짣짤짥짦짧짨짩짪짫짬짭짮짯짰짱짲짳짴짵짶짷째짹짺짻짼짽짾짿">>,
      <<51785, "쪀쪁쪂쪃쪄쪅쪆쪇쪈쪉쪊쪋쪌쪍쪎쪏쪐쪑쪒쪓쪔쪕쪖쪗쪘쪙쪚쪛쪜쪝쪞쪟쪠쪡쪢쪣쪤쪥쪦쪧쪨쪩쪪쪫쪬쪭쪮쪯쪰쪱쪲쪳쪴쪵쪶쪷쪸쪹쪺쪻쪼쪽쪾쪿쫀쫁쫂쫃쫄쫅쫆쫇쫈쫉쫊쫋쫌쫍쫎쫏쫐쫑쫒쫓쫔쫕쫖쫗쫘쫙쫚쫛쫜쫝쫞쫟쫠쫡쫢쫣쫤쫥쫦쫧쫨쫩쫪쫫쫬쫭쫮쫯쫰쫱쫲쫳쫴쫵쫶쫷쫸쫹쫺쫻쫼쫽쫾쫿">>,
      <<52041, "쮀쮁쮂쮃쮄쮅쮆쮇쮈쮉쮊쮋쮌쮍쮎쮏쮐쮑쮒쮓쮔쮕쮖쮗쮘쮙쮚쮛쮜쮝쮞쮟쮠쮡쮢쮣쮤쮥쮦쮧쮨쮩쮪쮫쮬쮭쮮쮯쮰쮱쮲쮳쮴쮵쮶쮷쮸쮹쮺쮻쮼쮽쮾쮿쯀쯁쯂쯃쯄쯅쯆쯇쯈쯉쯊쯋쯌쯍쯎쯏쯐쯑쯒쯓쯔쯕쯖쯗쯘쯙쯚쯛쯜쯝쯞쯟쯠쯡쯢쯣쯤쯥쯦쯧쯨쯩쯪쯫쯬쯭쯮쯯쯰쯱쯲쯳쯴쯵쯶쯷쯸쯹쯺쯻쯼쯽쯾쯿">>,
      <<52297, "첀첁첂첃첄첅첆첇첈첉첊첋첌첍첎첏첐첑첒첓첔첕첖첗처척첚첛천첝첞첟철첡첢첣첤첥첦첧첨첩첪첫첬청첮첯첰첱첲첳체첵첶첷첸첹첺첻첼첽첾첿쳀쳁쳂쳃쳄쳅쳆쳇쳈쳉쳊쳋쳌쳍쳎쳏쳐쳑쳒쳓쳔쳕쳖쳗쳘쳙쳚쳛쳜쳝쳞쳟쳠쳡쳢쳣쳤쳥쳦쳧쳨쳩쳪쳫쳬쳭쳮쳯쳰쳱쳲쳳쳴쳵쳶쳷쳸쳹쳺쳻쳼쳽쳾쳿">>,
      <<52553, "춀춁춂춃춄춅춆춇춈춉춊춋춌춍춎춏춐춑춒춓추축춖춗춘춙춚춛출춝춞춟춠춡춢춣춤춥춦춧춨충춪춫춬춭춮춯춰춱춲춳춴춵춶춷춸춹춺춻춼춽춾춿췀췁췂췃췄췅췆췇췈췉췊췋췌췍췎췏췐췑췒췓췔췕췖췗췘췙췚췛췜췝췞췟췠췡췢췣췤췥췦췧취췩췪췫췬췭췮췯췰췱췲췳췴췵췶췷췸췹췺췻췼췽췾췿">>,
      <<52809, "캀캁캂캃캄캅캆캇캈캉캊캋캌캍캎캏캐캑캒캓캔캕캖캗캘캙캚캛캜캝캞캟캠캡캢캣캤캥캦캧캨캩캪캫캬캭캮캯캰캱캲캳캴캵캶캷캸캹캺캻캼캽캾캿컀컁컂컃컄컅컆컇컈컉컊컋컌컍컎컏컐컑컒컓컔컕컖컗컘컙컚컛컜컝컞컟컠컡컢컣커컥컦컧컨컩컪컫컬컭컮컯컰컱컲컳컴컵컶컷컸컹컺컻컼컽컾컿">>,
      <<53065, "쾀쾁쾂쾃쾄쾅쾆쾇쾈쾉쾊쾋쾌쾍쾎쾏쾐쾑쾒쾓쾔쾕쾖쾗쾘쾙쾚쾛쾜쾝쾞쾟쾠쾡쾢쾣쾤쾥쾦쾧쾨쾩쾪쾫쾬쾭쾮쾯쾰쾱쾲쾳쾴쾵쾶쾷쾸쾹쾺쾻쾼쾽쾾쾿쿀쿁쿂쿃쿄쿅쿆쿇쿈쿉쿊쿋쿌쿍쿎쿏쿐쿑쿒쿓쿔쿕쿖쿗쿘쿙쿚쿛쿜쿝쿞쿟쿠쿡쿢쿣쿤쿥쿦쿧쿨쿩쿪쿫쿬쿭쿮쿯쿰쿱쿲쿳쿴쿵쿶쿷쿸쿹쿺쿻쿼쿽쿾쿿">>,
      <<53321, "킀킁킂킃킄킅킆킇킈킉킊킋킌킍킎킏킐킑킒킓킔킕킖킗킘킙킚킛킜킝킞킟킠킡킢킣키킥킦킧킨킩킪킫킬킭킮킯킰킱킲킳킴킵킶킷킸킹킺킻킼킽킾킿타탁탂탃탄탅탆탇탈탉탊탋탌탍탎탏탐탑탒탓탔탕탖탗탘탙탚탛태택탞탟탠탡탢탣탤탥탦탧탨탩탪탫탬탭탮탯탰탱탲탳탴탵탶탷탸탹탺탻탼탽탾탿">>,
      <<53577, "톀톁톂톃톄톅톆톇톈톉톊톋톌톍톎톏톐톑톒톓톔톕톖톗톘톙톚톛톜톝톞톟토톡톢톣톤톥톦톧톨톩톪톫톬톭톮톯톰톱톲톳톴통톶톷톸톹톺톻톼톽톾톿퇀퇁퇂퇃퇄퇅퇆퇇퇈퇉퇊퇋퇌퇍퇎퇏퇐퇑퇒퇓퇔퇕퇖퇗퇘퇙퇚퇛퇜퇝퇞퇟퇠퇡퇢퇣퇤퇥퇦퇧퇨퇩퇪퇫퇬퇭퇮퇯퇰퇱퇲퇳퇴퇵퇶퇷퇸퇹퇺퇻퇼퇽퇾퇿">>,
      <<53833, "튀튁튂튃튄튅튆튇튈튉튊튋튌튍튎튏튐튑튒튓튔튕튖튗튘튙튚튛튜튝튞튟튠튡튢튣튤튥튦튧튨튩튪튫튬튭튮튯튰튱튲튳튴튵튶튷트특튺튻튼튽튾튿틀틁틂틃틄틅틆틇틈틉틊틋틌틍틎틏틐틑틒틓틔틕틖틗틘틙틚틛틜틝틞틟틠틡틢틣틤틥틦틧틨틩틪틫틬틭틮틯티틱틲틳틴틵틶틷틸틹틺틻틼틽틾틿">>,
      <<54089, "펀펁펂펃펄펅펆펇펈펉펊펋펌펍펎펏펐펑펒펓펔펕펖펗페펙펚펛펜펝펞펟펠펡펢펣펤펥펦펧펨펩펪펫펬펭펮펯펰펱펲펳펴펵펶펷편펹펺펻펼펽펾펿폀폁폂폃폄폅폆폇폈평폊폋폌폍폎폏폐폑폒폓폔폕폖폗폘폙폚폛폜폝폞폟폠폡폢폣폤폥폦폧폨폩폪폫포폭폮폯폰폱폲폳폴폵폶폷폸폹폺폻폼폽폾폿">>,
      <<54345, "풀풁풂풃풄풅풆풇품풉풊풋풌풍풎풏풐풑풒풓풔풕풖풗풘풙풚풛풜풝풞풟풠풡풢풣풤풥풦풧풨풩풪풫풬풭풮풯풰풱풲풳풴풵풶풷풸풹풺풻풼풽풾풿퓀퓁퓂퓃퓄퓅퓆퓇퓈퓉퓊퓋퓌퓍퓎퓏퓐퓑퓒퓓퓔퓕퓖퓗퓘퓙퓚퓛퓜퓝퓞퓟퓠퓡퓢퓣퓤퓥퓦퓧퓨퓩퓪퓫퓬퓭퓮퓯퓰퓱퓲퓳퓴퓵퓶퓷퓸퓹퓺퓻퓼퓽퓾퓿">>,
      <<54601, "햀햁햂햃햄햅햆햇했행햊햋햌햍햎햏햐햑햒햓햔햕햖햗햘햙햚햛햜햝햞햟햠햡햢햣햤향햦햧햨햩햪햫햬햭햮햯햰햱햲햳햴햵햶햷햸햹햺햻햼햽햾햿헀헁헂헃헄헅헆헇허헉헊헋헌헍헎헏헐헑헒헓헔헕헖헗험헙헚헛헜헝헞헟헠헡헢헣헤헥헦헧헨헩헪헫헬헭헮헯헰헱헲헳헴헵헶헷헸헹헺헻헼헽헾헿">>,
      <<54857, "횀횁횂횃횄횅횆횇횈횉횊횋회획횎횏횐횑횒횓횔횕횖횗횘횙횚횛횜횝횞횟횠횡횢횣횤횥횦횧효횩횪횫횬횭횮횯횰횱횲횳횴횵횶횷횸횹횺횻횼횽횾횿훀훁훂훃후훅훆훇훈훉훊훋훌훍훎훏훐훑훒훓훔훕훖훗훘훙훚훛훜훝훞훟훠훡훢훣훤훥훦훧훨훩훪훫훬훭훮훯훰훱훲훳훴훵훶훷훸훹훺훻훼훽훾훿">>,
      <<55113, "힀힁힂힃힄힅힆힇히힉힊힋힌힍힎힏힐힑힒힓힔힕힖힗힘힙힚힛힜힝힞힟힠힡힢힣">>,
      <<55161, "ힰힱힲힳힴힵힶힷힸힹힺힻힼힽힾힿퟀퟁퟂퟃퟄퟅퟆ">>,
      <<55188, "ퟋퟌퟍퟎퟏퟐퟑퟒퟓퟔퟕퟖퟗퟘퟙퟚퟛퟜퟝퟞퟟퟠퟡퟢퟣퟤퟥퟦퟧퟨퟩퟪퟫퟬퟭퟮퟯퟰퟱퟲퟳퟴퟵퟶퟷퟸퟹퟺퟻ">>,
      <<63817, "呂女廬旅濾礪閭驪麗黎力曆歷轢年憐戀撚漣煉璉秊練聯輦蓮連鍊列劣咽烈裂說廉念捻殮簾獵令囹寧嶺怜玲瑩羚聆鈴零靈領例禮醴隸惡了僚寮尿料樂燎療蓼遼龍暈阮劉杻柳流溜琉留硫紐類六戮陸倫崙淪輪律慄栗率隆利吏履易李梨泥理痢罹裏裡里離匿溺吝燐璘藺隣鱗麟林淋臨立笠粒狀炙識什茶刺">>,
      <<64073, "婢嬨廒廙彩徭惘慎愈憎慠懲戴揄搜摒敖晴朗望杖歹殺流滛滋漢瀞煮瞧爵犯猪瑱甆画瘝瘟益盛直睊着磌窱節类絛練缾者荒華蝹襁覆視調諸請謁諾諭謹變贈輸遲醙鉶陼難靖韛響頋頻鬒龜𢡊𢡄𣏕㮝䀘䀹𥉉𥳐𧻓齃龎">>,
      <<64329, "ﮀﮁﮂﮃﮄﮅﮆﮇﮈﮉﮊﮋﮌﮍﮎﮏﮐﮑﮒﮓﮔﮕﮖﮗﮘﮙﮚﮛﮜﮝﮞﮟﮠﮡﮢﮣﮤﮥﮦﮧﮨﮩﮪﮫﮬﮭﮮﮯﮰﮱ">>,
      <<64412, "ﯓﯔﯕﯖﯗﯘﯙﯚﯛﯜﯝﯞﯟﯠﯡﯢﯣﯤﯥﯦﯧﯨﯩﯪﯫﯬﯭﯮﯯﯰﯱﯲﯳﯴﯵﯶﯷﯸﯹﯺﯻﯼﯽﯾﯿ">>,
      <<64585, "ﲀﲁﲂﲃﲄﲅﲆﲇﲈﲉﲊﲋﲌﲍﲎﲏﲐﲑﲒﲓﲔﲕﲖﲗﲘﲙﲚﲛﲜﲝﲞﲟﲠﲡﲢﲣﲤﲥﲦﲧﲨﲩﲪﲫﲬﲭﲮﲯﲰﲱﲲﲳﲴﲵﲶﲷﲸﲹﲺﲻﲼﲽﲾﲿﳀﳁﳂﳃﳄﳅﳆﳇﳈﳉﳊﳋﳌﳍﳎﳏﳐﳑﳒﳓﳔﳕﳖﳗﳘﳙﳚﳛﳜﳝﳞﳟﳠﳡﳢﳣﳤﳥﳦﳧﳨﳩﳪﳫﳬﳭﳮﳯﳰﳱﳲﳳﳴﳵﳶﳷﳸﳹﳺﳻﳼﳽﳾﳿ">>,
      <<64841, "ﶀﶁﶂﶃﶄﶅﶆﶇﶈﶉﶊﶋﶌﶍﶎﶏ">>,
      <<64859, "ﶒﶓﶔﶕﶖﶗﶘﶙﶚﶛﶜﶝﶞﶟﶠﶡﶢﶣﶤﶥﶦﶧﶨﶩﶪﶫﶬﶭﶮﶯﶰﶱﶲﶳﶴﶵﶶﶷﶸﶹﶺﶻﶼﶽﶾﶿﷀﷁﷂﷃﷄﷅﷆﷇ">>,
      <<64953, "ﷰﷱﷲﷳﷴﷵﷶﷷﷸﷹﷺﷻ">>,
      <<65097, "ﺀﺁﺂﺃﺄﺅﺆﺇﺈﺉﺊﺋﺌﺍﺎﺏﺐﺑﺒﺓﺔﺕﺖﺗﺘﺙﺚﺛﺜﺝﺞﺟﺠﺡﺢﺣﺤﺥﺦﺧﺨﺩﺪﺫﺬﺭﺮﺯﺰﺱﺲﺳﺴﺵﺶﺷﺸﺹﺺﺻﺼﺽﺾﺿﻀﻁﻂﻃﻄﻅﻆﻇﻈﻉﻊﻋﻌﻍﻎﻏﻐﻑﻒﻓﻔﻕﻖﻗﻘﻙﻚﻛﻜﻝﻞﻟﻠﻡﻢﻣﻤﻥﻦﻧﻨﻩﻪﻫﻬﻭﻮﻯﻰﻱﻲﻳﻴﻵﻶﻷﻸﻹﻺﻻﻼ">>,
      <<65353, "ﾀﾁﾂﾃﾄﾅﾆﾇﾈﾉﾊﾋﾌﾍﾎﾏﾐﾑﾒﾓﾔﾕﾖﾗﾘﾙﾚﾛﾜﾝﾞﾟﾠﾡﾢﾣﾤﾥﾦﾧﾨﾩﾪﾫﾬﾭﾮﾯﾰﾱﾲﾳﾴﾵﾶﾷﾸﾹﾺﾻﾼﾽﾾ">>,
      <<65419, "ￂￃￄￅￆￇ">>,
      <<65427, "ￊￋￌￍￎￏ">>,
      <<65435, "ￒￓￔￕￖￗ">>,
      <<65443, "ￚￛￜ">>>>

AlphaPositions ==
    {p \in (DOMAIN AlphaRuns) \X (1..128) : p[2] <= Len(AlphaRuns[p[1]][2])}
AlphaChars == {SubSeq(AlphaRuns[p[1]][2], p[2], p[2]) : p \in AlphaPositions}
AlphaRunChars == [k \in DOMAIN AlphaRuns |-> Chars(AlphaRuns[k][2])]

\* str.isalpha of one character
isalpha(c) == c \in AlphaChars \/ c \in MultiUpperChars

\* ord(char.upper()) - ord("A") + 10 of an alphabetic character with a
\* one-character upper()
UpperOrdValue(c) ==
    LET k == CHOOSE k \in DOMAIN AlphaRuns : c \in AlphaRunChars[k]
        run == AlphaRuns[k][2]
    IN  AlphaRuns[k][1] + (CHOOSE i \in 1..Len(run) : SubSeq(run, i, i) = c) - 1

\* the characters str.strip() takes for whitespace: blank, tab, line feed,
\* vertical tab, form feed, carriage return, the separators U+001C to U+001F,
\* next line U+0085, no-break space U+00A0 and the Ogham space mark U+1680
\* (the remaining ones, U+2000 to U+200A, U+2028, U+2029, U+202F, U+205F and
\* U+3000, are no characters of a string here)
StrWhitespace ==
    {" ", "\t", "\n", "", "\f", "\r", "", "", "", "", "", " ",
     " "}

\* the characters int() skips around a literal: the same but for the
\* separators U+001C to U+001F
IntWhitespace == StrWhitespace \ {"", "", "", ""}

\* `not ch.strip()` of one character
isspace(c) == c \in StrWhitespace

\* a Python value that is a str or an int
PyStr(s) == [t |-> "str", v |-> s]
PyNum(n) == [t |-> "int", v |-> n]
\* Python's ==, which is False between a str and an int
PyEq(a, b) == a.t = b.t /\ a.v = b.v

\* the outcome of a call: a returned value, or an exception raised
Return(x) == [raised |-> FALSE, v |-> x]
Raise(e) == [raised |-> TRUE, exc |-> e]

\* an exception of the call r propagates; otherwise the code goes on with its value
Bind(r, F(_)) == IF r.raised THEN r ELSE F(r.v)

RECURSIVE lstrip(_)
lstrip(s) == IF s # << >> /\ Head(s) \in IntWhitespace THEN lstrip(Tail(s)) ELSE s

RECURSIVE rstrip(_)
rstrip(s) ==
    IF s # << >> /\ s[Len(s)] \in IntWhitespace THEN rstrip(SubSeq(s, 1, Len(s) - 1)) ELSE s

\* the digits of an int literal: decimal digits of any script, with single
\* underscores between them
IsDigitRun(s) ==
    /\ s # << >>
    /\ \A i \in DOMAIN s : s[i] \in DecimalDigits \/ s[i] = "_"
    /\ s[1] # "_" /\ s[Len(s)] # "_"
    /\ \A i \in 1..(Len(s) - 1) : ~(s[i] = "_" /\ s[i + 1] = "_")

RECURSIVE DigitRunValue(_, _)
DigitRunValue(s, acc) ==
    IF s = << >> THEN acc
    ELSE IF Head(s) = "_" THEN DigitRunValue(Tail(s), acc)
    ELSE DigitRunValue(Tail(s), 10 * acc + DecimalDigitValue(Head(s)))

SignedDigits(negative, body) ==
    IF ~IsDigitRun(body) THEN Raise("ValueError")
    ELSE IF negative THEN Return(0 - DigitRunValue(body, 0))
    ELSE Return(DigitRunValue(body, 0))

IntOfStripped(t) ==
    IF t # << >> /\ Head(t) \in {"+", "-"} THEN SignedDigits(Head(t) = "-", Tail(t))
    ELSE SignedDigits(FALSE, t)

\* int(s) of a str: surrounding whitespace stripped, an optional sign, decimal
\* digits of any script with single underscores between them; anything else
\* raises ValueError
IntOfStr(s) == IntOfStripped(rstrip(lstrip(s)))

\* int(x) of a str or an int
int(x) == IF x.t = "int" THEN Return(x.v) ELSE IntOfStr(x.v)

\* Python's %, whose result takes the sign of the divisor (moduli are positive)
PyMod(a, m) == a % m

----------------------------------------------------------------------------
(* checksum_validator.py *)

S10_WEIGHTS == <<8, 6, 4, 2, 3, 5, 9, 7>>
MOD == 36

Min(a, b) == IF a < b THEN a ELSE b

\* sum of int(digit) * weight over zip(serial_number, weights); raises at the
\* first paired symbol that is not a digit
RECURSIVE WeightedSum(_, _, _)
WeightedSum(serial_number, weights, total) ==
    IF serial_number = << >> \/ weights = << >> THEN Return(total)
    ELSE Bind(IntOfStr(<<Head(serial_number)>>),
              LAMBDA d : WeightedSum(Tail(serial_number), Tail(weights),
                                     total + d * Head(weights)))

\* the end of S10._check_digit without its `if remainder == 0: return 5`
S10_of_remainder_no_five(remainder) ==
    IF remainder = 1 THEN 0
    ELSE 11 - remainder

S10_of_remainder(remainder) ==
    IF remainder = 1 THEN 0
    ELSE IF remainder = 0 THEN 5
    ELSE 11 - remainder

S10_check_digit(serial_number) ==
    Bind(WeightedSum(serial_number, S10_WEIGHTS, 0),
         LAMBDA total : Return(PyNum(S10_of_remainder(PyMod(total, 11)))))

\* `if is_odd_index and self.odds_multiplier`: None and 0 are both falsy
Truthy(o) == ~IsNone(o) /\ Val(o) # 0

\* what one digit adds to the total of Mod10
Mod10_term(self, index, digit) ==
    LET is_even_index == index % 2 = 0
        is_odd_index == ~is_even_index
    IN  IF is_odd_index /\ Truthy(self.odds_multiplier)
        THEN digit * Val(self.odds_multiplier)
        ELSE IF is_even_index /\ Truthy(self.evens_multiplier)
        THEN digit * Val(self.evens_multiplier)
        ELSE digit

RECURSIVE Mod10_total(_, _, _, _)
Mod10_total(self, serial_number, index, total) ==
    IF index >= Len(serial_number) THEN Return(total)
    ELSE Bind(IntOfStr(<<serial_number[index + 1]>>),
              LAMBDA digit : Mod10_total(self, serial_number, index + 1,
                                         total + Mod10_term(self, index, digit)))

\* check = total % 10, complemented to 10 when it is not 0
TensComplement(check) == IF check # 0 THEN 10 - check ELSE check

Mod10_check_digit(self, serial_number) ==
    Bind(Mod10_total(self, serial_number, 0, 0),
         LAMBDA total : Return(PyNum(TensComplement(PyMod(total, 10)))))

\* the value of a digit run modulo m, reduced as the digits are read: Python's
\* int has no width, and a serial number of ten digits is past 2^31
RECURSIVE DigitRunValueMod(_, _, _)
DigitRunValueMod(s, acc, m) ==
    IF s = << >> THEN acc
    ELSE IF Head(s) = "_" THEN DigitRunValueMod(Tail(s), acc, m)
    ELSE DigitRunValueMod(Tail(s), (10 * acc + DecimalDigitValue(Head(s))) % m, m)

SignedDigitsMod(negative, body, m) ==
    IF ~IsDigitRun(body) THEN Raise("ValueError")
    ELSE IF negative THEN Return(PyMod(0 - DigitRunValueMod(body, 0, m), m))
    ELSE Return(DigitRunValueMod(body, 0, m))

\* int(s) % m of a str, as IntOfStr reads it
IntOfStrMod(s, m) ==
    LET t == rstrip(lstrip(s))
    IN  IF t # << >> /\ Head(t) \in {"+", "-"}
        THEN SignedDigitsMod(Head(t) = "-", Tail(t), m)
        ELSE SignedDigitsMod(FALSE, t, m)

\* a to_int that passes over the symbols that are no digits
to_int_mod_digits_only(serial_number, m) ==
    IntOfStrMod(SelectSeq(serial_number, LAMBDA c : c \in DecimalDigits), m)

\* types.to_int, int("".join(map(str, serial_number))), taken % m
to_int_mod(serial_number, m) == IntOfStrMod(serial_number, m)

Mod7_check_digit(serial_number) ==
    Bind(to_int_mod(serial_number, 7), LAMBDA n : Return(PyNum(n)))

\* the loop body with `cd - self.MOD` for its `cd - (self.MOD + 1)`
Mod_37_36_step_off_by_one(cd, val) ==
    LET a == val + cd
        b == IF a > MOD THEN a - MOD ELSE a
        c == b * 2
    IN  IF c > MOD THEN c - MOD ELSE c

\* one symbol of the Mod_37_36 loop: the new running value cd
Mod_37_36_step(cd, val) ==
    LET a == val + cd
        b == IF a > MOD THEN a - MOD ELSE a
        c == b * 2
    IN  IF c > MOD THEN c - (MOD + 1) ELSE c

\* the value of one symbol: `ord(char.upper()) - ord("A") + 10` when
\* char.isalpha(), where ord() raises TypeError for an upper() of several
\* characters, and int(char) otherwise
Mod_37_36_value(char) ==
    IF isalpha(char)
    THEN IF char \in MultiUpperChars THEN Raise("TypeError")
         ELSE Return(UpperOrdValue(char))
    ELSE IntOfStr(<<char>>)

RECURSIVE Mod_37_36_loop(_, _)
Mod_37_36_loop(serial_number, cd) ==
    IF serial_number = << >> THEN Return(cd)
    ELSE Bind(Mod_37_36_value(Head(serial_number)),
              LAMBDA val : Mod_37_36_loop(Tail(serial_number), Mod_37_36_step(cd, val)))

\* the end of Mod_37_36._check_digit, from the running value after the loop
Mod_37_36_final(running) ==
    LET cd0 == (MOD + 1) - running
        cd == IF cd0 = MOD THEN 0 ELSE cd0
    IN  IF cd < 0 \/ cd >= MOD THEN Raise("ValueError")
        ELSE IF cd < 10 THEN Return(PyStr(<<Digits[cd + 1]>>))
        ELSE Return(PyStr(<<UpperLetters[cd - 10 + 1]>>))

Mod_37_36_check_digit(serial_number) ==
    Bind(Mod_37_36_loop(serial_number, MOD), LAMBDA running : Mod_37_36_final(running))

SumProduct_check_digit(self, serial_number) ==
    Bind(WeightedSum(serial_number, self.weights, 0),
         LAMBDA total : Return(PyNum(PyMod(PyMod(total, self.first_modulo),
                                           self.second_modulo))))

Reverse(s) == [i \in 1..Len(s) |-> s[Len(s) + 1 - i]]

\* what the digit at index i of the reversed serial number adds to the total
Luhn_term(i, c) ==
    LET x == IF i % 2 = 0 THEN c * 2 ELSE c
    IN  IF x > 9 THEN x - 9 ELSE x

RECURSIVE Luhn_total(_, _, _)
Luhn_total(digits, i, total) ==
    IF i >= Len(digits) THEN Return(total)
    ELSE Bind(IntOfStr(<<digits[i + 1]>>),
              LAMBDA c : Luhn_total(digits, i + 1, total + Luhn_term(i, c)))

Luhn_check_digit(serial_number) ==
    Bind(Luhn_total(Reverse(serial_number), 0, 0),
         LAMBDA total : Return(PyNum(TensComplement(PyMod(total, 10)))))

\* the validator objects
S10 == [cls |-> "S10"]
Mod7 == [cls |-> "Mod7"]
Mod10(odds_multiplier, evens_multiplier) ==
    [cls |-> "Mod10", odds_multiplier |-> odds_multiplier,
     evens_multiplier |-> evens_multiplier]
Mod_37_36 == [cls |-> "Mod_37_36"]
SumProductWithWeightsAndModulo(weights, first_modulo, second_modulo) ==
    [cls |-> "SumProductWithWeightsAndModulo", weights |-> weights,
     first_modulo |-> first_modulo, second_modulo |-> second_modulo]
Luhn == [cls |-> "Luhn"]

\* self._check_digit(serial_number), dispatched on the validator's class
check_digit_of(self, serial_number) ==
    CASE self.cls = "S10" -> S10_check_digit(serial_number)
      [] self.cls = "Mod10" -> Mod10_check_digit(self, serial_number)
      [] self.cls = "Mod7" -> Mod7_check_digit(serial_number)
      [] self.cls = "Mod_37_36" -> Mod_37_36_check_digit(serial_number)
      [] self.cls = "SumProductWithWeightsAndModulo" ->
             SumProduct_check_digit(self, serial_number)
      [] self.cls = "Luhn" -> Luhn_check_digit(serial_number)

\* the comparison with the try/except left out: an exception of either side
\* leaves passes
EqualsOrRaise(computed, given) ==
    IF computed.raised THEN computed
    ELSE IF given.raised THEN given
    ELSE Return(PyEq(computed.v, PyNum(given.v)))

\* `try: return <computed> == int(check_digit)`, `except (ValueError, TypeError):
\* return False`
EqualsOrFalse(computed, given) ==
    IF computed.raised \/ given.raised THEN Return(FALSE)
    ELSE Return(PyEq(computed.v, PyNum(given.v)))

\* ChecksumValidator.passes: the computed digit against int(check_digit)
ChecksumValidator_passes(self, serial_number, check_digit) ==
    EqualsOrFalse(check_digit_of(self, serial_number), int(check_digit))

\* Mod_37_36.passes: the rendered digit against check_digit itself, nothing caught
Mod_37_36_passes(self, serial_number, check_digit) ==
    Bind(check_digit_of(self, serial_number),
         LAMBDA computed : Return(PyEq(computed, check_digit)))

passes(self, serial_number, check_digit) ==
    IF self.cls = "Mod_37_36" THEN Mod_37_36_passes(self, serial_number, check_digit)
    ELSE ChecksumValidator_passes(self, serial_number, check_digit)

----------------------------------------------------------------------------
(* The collaborators of definition.py whose source is not in the tree *)

\* A compiled pattern is a sequence of named groups, each a character class
\* repeated lo..hi times and possibly optional: (?P<name>[chars]{lo,hi})?
Group(name, chars, lo, hi, optional) ==
    [name |-> name, chars |-> chars, lo |-> lo, hi |-> hi, optional |-> optional]

\* the repetition count tried first for the first group: the longest there is room for
FirstLength(groups, s) == IF groups = << >> THEN 0 ELSE Min(Head(groups).hi, Len(s))

\* the groupdict of the first way the groups consume all of s, the first group
\* trying k repetitions and then fewer, a longer repetition before a shorter
\* one and a present group before an absent one (greedy matching with
\* backtracking); None when there is none
RECURSIVE TryLength(_, _, _)
TryLength(groups, s, k) ==
    IF groups = << >> THEN (IF s = << >> THEN Some(<< >>) ELSE None)
    ELSE LET g == Head(groups)
         IN  IF k < g.lo
             THEN IF g.optional
                  THEN LET rest == TryLength(Tail(groups), s, FirstLength(Tail(groups), s))
                       IN  IF IsNone(rest) THEN None
                           ELSE Some((g.name :> None) @@ Val(rest))
                  ELSE None
             ELSE LET tail == SubSeq(s, k + 1, Len(s))
                      rest == IF \A i \in 1..k : s[i] \in g.chars
                              THEN TryLength(Tail(groups), tail,
                                             FirstLength(Tail(groups), tail))
                              ELSE None
                  IN  IF ~IsNone(rest)
                      THEN Some((g.name :> Some(SubSeq(s, 1, k))) @@ Val(rest))
                      ELSE TryLength(groups, s, k - 1)

MatchGroups(groups, s) == TryLength(groups, s, FirstLength(groups, s))

\* number_regex.fullmatch(tracking_number) and match.groupdict()
fullmatch(number_regex, tracking_number) == MatchGroups(number_regex, tracking_number)

\* DefaultSerialNumberParser.from_spec(validation_spec): the rules a validation
\* block can give the parser are outside the model, whose specifications give none
DefaultSerialNumberParser_from_spec(validation_spec) ==
    [cls |-> "DefaultSerialNumberParser"]

\* DefaultSerialNumberParser.parse with no rules: the symbols of the string, in order
DefaultSerialNumberParser_parse(number) == [i \in 1..Len(number) |-> number[i]]

\* UPSSerialNumberParser(): a parser that strips symbols before it gives the
\* rest as the same sequence of symbols.  Which symbols it strips is not in the
\* tree: a parser here strips the positions `strip`, and every set of positions
\* up to MaxStrip is a parser the construction can yield.
UPSSerialNumberParser(strip) == [cls |-> "UPSSerialNumberParser", strip |-> strip]

UPSSerialNumberParsers == {UPSSerialNumberParser(strip) : strip \in SUBSET (1..MaxStrip)}

RECURSIVE KeepFrom(_, _, _)
KeepFrom(number, i, strip) ==
    IF i > Len(number) THEN << >>
    ELSE IF i \in strip THEN KeepFrom(number, i + 1, strip)
    ELSE <<number[i]>> \o KeepFrom(number, i + 1, strip)

UPSSerialNumberParser_parse(self, number) == KeepFrom(number, 1, self.strip)

\* self.serial_number_parser.parse(number), dispatched on the parser's class
SerialNumberParser_parse(self, number) ==
    IF self.cls = "UPSSerialNumberParser" THEN UPSSerialNumberParser_parse(self, number)
    ELSE DefaultSerialNumberParser_parse(number)

\* ValueMatcher.from_spec: a list of accepted values, or a pattern
ValueMatcher_from_spec(spec) ==
    IF "matches" \in DOMAIN spec
    THEN [kind |-> "matches", values |-> spec["matches"]]
    ELSE [kind |-> "matches_regex", regex |-> spec["matches_regex"]]

\* ValueMatcher.matches
ValueMatcher_matches(self, value) ==
    IF self.kind = "matches" THEN value \in Range(self.values)
    ELSE ~IsNone(MatchGroups(self.regex, value))

----------------------------------------------------------------------------
(* definition.py *)

RECURSIVE _remove_whitespace(_)
_remove_whitespace(value) ==
    IF value = << >> THEN << >>
    ELSE IF isspace(Head(value)) THEN _remove_whitespace(Tail(value))
    ELSE <<Head(value)>> \o _remove_whitespace(Tail(value))

_get_serial_number(self, match_data) ==
    LET raw_serial_number == Get(match_data, "SerialNumber")
    IN  IF ~IsNone(raw_serial_number) /\ Val(raw_serial_number) # << >>
        THEN Some(SerialNumberParser_parse(
                      self.serial_number_parser,
                      _remove_whitespace(Val(raw_serial_number))))
        ELSE None

\* the template holds one "%s", which the tracking number replaces
RECURSIVE Format(_, _)
Format(template, tracking_number) ==
    IF template = << >> THEN << >>
    ELSE IF Head(template) = "%s" THEN tracking_number \o Format(Tail(template), tracking_number)
    ELSE <<Head(template)>> \o Format(Tail(template), tracking_number)

tracking_url(self, tracking_number) ==
    IF IsNone(self.tracking_url_template) \/ Val(self.tracking_url_template) = << >>
    THEN None
    ELSE Some(Format(Val(self.tracking_url_template), tracking_number))

\* the Info of the first pair whose matcher matches, None when there is none
RECURSIVE FirstMatch(_, _)
FirstMatch(value_matchers, value) ==
    IF value_matchers = << >> THEN None
    ELSE IF ValueMatcher_matches(Head(value_matchers)[1], value)
         THEN Some(Head(value_matchers)[2])
         ELSE FirstMatch(Tail(value_matchers), value)

_get_additional(additional, match_data) ==
    LET raw_value == Get(match_data, additional.regex_group_name)
    IN  IF IsNone(raw_value) \/ Val(raw_value) = << >> THEN None
        ELSE FirstMatch(additional.value_matchers, _remove_whitespace(Val(raw_value)))

\* the loop of test over self.additional: `if info:` keeps an Info that is
\* neither None nor an empty dict
RECURSIVE collect_additional(_, _, _)
collect_additional(additions, match_data, additional) ==
    IF additions = << >> THEN additional
    ELSE LET addition == Head(additions)
             info == _get_additional(addition, match_data)
         IN  collect_additional(
                 Tail(additions), match_data,
                 IF ~IsNone(info) /\ Val(info) # << >>
                 THEN (addition.name :> Val(info)) @@ additional
                 ELSE additional)

\* the comprehension with its `if key not in additional` left out
_get_additional_error_unfiltered(self, additional) ==
    IF IsNone(self.additional_validator) THEN << >>
    ELSE LET exists == Val(self.additional_validator).exists
         IN  [i \in 1..Len(exists) |->
                 <<exists[i], exists[i] \o " not found in additional information">>]

_get_additional_error(self, additional) ==
    IF IsNone(self.additional_validator) THEN << >>
    ELSE LET exists == Val(self.additional_validator).exists
             missing == SelectSeq(exists, LAMBDA key : key \notin DOMAIN additional)
         IN  [i \in 1..Len(missing) |->
                 <<missing[i], missing[i] \o " not found in additional information">>]

ChecksumError(passes_checksum) ==
    IF ~passes_checksum THEN Some(<<"checksum", "Checksum validation failed">>) ELSE None

\* the str of the CheckDigit capture goes through int() before passes sees it
_get_checksum_errors(self, serial_number, match_data) ==
    IF IsNone(self.checksum_validator) THEN Return(None)
    ELSE IF IsNone(serial_number) \/ Val(serial_number) = << >>
    THEN Return(Some(<<"checksum", "SerialNumber not found">>))
    ELSE IF IsNone(Get(match_data, "CheckDigit")) \/ Val(Get(match_data, "CheckDigit")) = << >>
    THEN Return(Some(<<"checksum", "CheckDigit not found">>))
    ELSE Bind(IntOfStr(Val(Get(match_data, "CheckDigit"))),
              LAMBDA check_digit :
                  Bind(passes(Val(self.checksum_validator), Val(serial_number),
                              PyNum(check_digit)),
                       LAMBDA passes_checksum : Return(ChecksumError(passes_checksum))))

ErrorList(checksum_error) ==
    IF ~IsNone(checksum_error) THEN <<Val(checksum_error)>> ELSE << >>

_get_validation_errors(self, serial_number, additional, match_data) ==
    Bind(_get_checksum_errors(self, serial_number, match_data),
         LAMBDA checksum_error :
             Return(ErrorList(checksum_error) \o _get_additional_error(self, additional)))

TrackingNumber(number, courier, product, match_data, serial_number, url, additional, validation_errors) ==
    [number |-> number, courier |-> courier, product |-> product,
     serial_number |-> serial_number, tracking_url |-> url,
     match_data |-> match_data, additional |-> additional,
     validation_errors |-> validation_errors]

\* test from line 167 on, the match being there
test_matched(self, tracking_number, match_data, serial_number, additional) ==
    Bind(_get_validation_errors(self, serial_number, additional, match_data),
         LAMBDA validation_errors :
             Return(Some(TrackingNumber(
                 tracking_number, self.courier, self.product, match_data,
                 serial_number, tracking_url(self, tracking_number), additional,
                 validation_errors))))

test_groups(self, tracking_number, match_data) ==
    test_matched(self, tracking_number, match_data,
                 _get_serial_number(self, match_data),
                 collect_additional(self.additional, match_data, << >>))

\* TrackingNumberDefinition.test: None, Some(TrackingNumber), or an exception
test(self, tracking_number) ==
    IF IsNone(fullmatch(self.number_regex, tracking_number)) THEN Return(None)
    ELSE test_groups(self, tracking_number,
                     Val(fullmatch(self.number_regex, tracking_number)))

----------------------------------------------------------------------------
(* Construction from a declarative specification *)

\* the sequences that enumerate the set S once each
Orderings(S) == {p \in [1..Cardinality(S) -> S] : Range(p) = S}

\* Additional.from_spec builds each Info by iterating a set of the entry's keys
\* other than "matches" and "matches_regex": the keys' order in the Info is
\* whatever order that set iterates in
InfosOf(value_matcher_spec) ==
    {[i \in 1..Len(p) |-> <<p[i], value_matcher_spec[p[i]]>>] :
        p \in Orderings(DOMAIN value_matcher_spec \ {"matches", "matches_regex"})}

RECURSIVE ValueMatcherLists(_)
ValueMatcherLists(lookup) ==
    IF lookup = << >> THEN {<< >>}
    ELSE {<< <<ValueMatcher_from_spec(Head(lookup)), info>> >> \o rest :
             info \in InfosOf(Head(lookup)), rest \in ValueMatcherLists(Tail(lookup))}

\* Additional.from_spec: the Additionals the construction can yield
Additional_from_spec(spec) ==
    {[name |-> spec["name"], regex_group_name |-> spec["regex_group_name"],
      value_matchers |-> value_matchers] :
        value_matchers \in ValueMatcherLists(spec["lookup"])}

RECURSIVE AdditionalLists(_)
AdditionalLists(additional_spec) ==
    IF additional_spec = << >> THEN {<< >>}
    ELSE {<<a>> \o rest : a \in Additional_from_spec(Head(additional_spec)),
                          rest \in AdditionalLists(Tail(additional_spec))}

AdditionalValidator_from_spec(spec) ==
    IF IsNone(spec) \/ "exists" \notin DOMAIN Val(spec) THEN None
    ELSE Some([exists |-> Val(spec)["exists"]])

\* an unknown strategy let through with no validator
UnknownStrategyIgnored(strategy) == Return(None)

\* raise ValueError(f"Unknown checksum: {strategy}")
UnknownStrategy(strategy) == Raise("ValueError")

ChecksumValidator_from_spec(validation_spec) ==
    LET checksum_spec == Get(validation_spec, "checksum")
    IN  IF IsNone(checksum_spec) \/ DOMAIN Val(checksum_spec) = {} THEN Return(None)
        ELSE LET cs == Val(checksum_spec)
                 strategy == Get(cs, "name")
             IN  IF strategy = Some("s10") THEN Return(Some(S10))
                 ELSE IF strategy = Some("mod7") THEN Return(Some(Mod7))
                 ELSE IF strategy = Some("mod10")
                      THEN Return(Some(Mod10(Get(cs, "odds_multiplier"),
                                             Get(cs, "evens_multiplier"))))
                 ELSE IF strategy = Some("mod_37_36") THEN Return(Some(Mod_37_36))
                 ELSE IF strategy = Some("sum_product_with_weightings_and_modulo")
                      THEN IF {"weightings", "modulo1", "modulo2"} \subseteq DOMAIN cs
                           THEN Return(Some(SumProductWithWeightsAndModulo(
                                    cs["weightings"], cs["modulo1"], cs["modulo2"])))
                           ELSE Raise("KeyError")
                 ELSE IF strategy = Some("luhn") THEN Return(Some(Luhn))
                 ELSE UnknownStrategy(strategy)

TrackingNumberDefinition(courier, product, number_regex, tracking_url_template, serial_number_parser, additional, additional_validator, checksum_validator) ==
    [courier |-> courier, product |-> product, number_regex |-> number_regex,
     tracking_url_template |-> tracking_url_template,
     serial_number_parser |-> serial_number_parser, additional |-> additional,
     additional_validator |-> additional_validator,
     checksum_validator |-> checksum_validator]

\* `UPSSerialNumberParser() if courier.code == "ups" else
\* DefaultSerialNumberParser.from_spec(validation_spec)`
SerialNumberParsersFor(courier, validation_spec) ==
    IF courier.code = "ups" THEN UPSSerialNumberParsers
    ELSE {DefaultSerialNumberParser_from_spec(validation_spec)}

\* TrackingNumberDefinition.from_spec: the outcomes the construction can have
TrackingNumberDefinition_from_spec(courier, tn_spec) ==
    LET additional_spec == Get(tn_spec, "additional")
        validation_spec == tn_spec["validation"]
    IN  IF ChecksumValidator_from_spec(validation_spec).raised
        THEN {ChecksumValidator_from_spec(validation_spec)}
        ELSE {Return(TrackingNumberDefinition(
                  courier, [name |-> tn_spec["name"]], tn_spec["regex"],
                  Get(tn_spec, "tracking_url"),
                  serial_number_parser, additional,
                  AdditionalValidator_from_spec(Get(validation_spec, "additional")),
                  ChecksumValidator_from_spec(validation_spec).v)) :
                serial_number_parser \in SerialNumberParsersFor(courier, validation_spec),
                additional \in AdditionalLists(IF IsNone(additional_spec) THEN << >>
                                               ELSE Val(additional_spec))}

----------------------------------------------------------------------------
(* types.py *)

valid(self) == self.validation_errors = << >>

\* the body of the loop of courier_info for one item (k, v) of the Info
merge_item(info, k, v) ==
    IF IsNone(v) THEN info
    ELSE IF k = "courier" THEN ("name" :> v) @@ info
    ELSE IF k = "courier_url" THEN ("url" :> v) @@ info
    ELSE (k :> v) @@ info

\* the loop of courier_info over the items of the "Courier" Info, in its order
RECURSIVE merge_courier_info(_, _)
merge_courier_info(items, info) ==
    IF items = << >> THEN info
    ELSE merge_courier_info(Tail(items),
                            merge_item(info, Head(items)[1], Head(items)[2]))

\* TrackingNumber.courier_info; a value of the dict is None or Some(str)
courier_info(self) ==
    merge_courier_info(
        IF "Courier" \in DOMAIN self.additional THEN self.additional["Courier"] ELSE << >>,
        [code |-> Some(self.courier.code), name |-> Some(self.courier.name)])

----------------------------------------------------------------------------
(* __init__.py *)

RECURSIVE get_tracking_number(_, _, _)
get_tracking_number(DEFINITIONS, number, validate) ==
    IF DEFINITIONS = << >> THEN Return(None)
    ELSE Bind(test(Head(DEFINITIONS), number),
              LAMBDA tracking_number :
                  IF ~IsNone(tracking_number)
                     /\ (~validate \/ valid(Val(tracking_number)))
                  THEN Return(tracking_number)
                  ELSE get_tracking_number(Tail(DEFINITIONS), number, validate))

RECURSIVE possible_tracking_number_loop(_, _, _)
possible_tracking_number_loop(DEFINITIONS, number, possible_numbers) ==
    IF DEFINITIONS = << >> THEN Return(possible_numbers)
    ELSE Bind(test(Head(DEFINITIONS), number),
              LAMBDA tracking_number :
                  possible_tracking_number_loop(
                      Tail(DEFINITIONS), number,
                      IF ~IsNone(tracking_number)
                      THEN Append(possible_numbers, Val(tracking_number))
                      ELSE possible_numbers))

possible_tracking_number(DEFINITIONS, number) ==
    possible_tracking_number_loop(DEFINITIONS, number, << >>)

----------------------------------------------------------------------------
(* The specifications the catalog is loaded from *)

DIGIT == Range(Digits)
ALPHA == Range(UpperLetters)
ALNUM == DIGIT \cup ALPHA

\* tests/fixtures/example_s10.json, as tests/test_additional_information.py
\* shows it: "RB123456785GB" and "AB123456785NP" match, the S10 digit of the
\* eight digits is checked, "Courier" is required, the country code GB and the
\* service type RB are known
Spec_S10 ==
    [name |-> "S10",
     regex |-> <<Group("ServiceType", ALPHA, 2, 2, FALSE),
                 Group("SerialNumber", DIGIT, 8, 8, FALSE),
                 Group("CheckDigit", DIGIT, 1, 1, FALSE),
                 Group("CountryCode", ALPHA, 2, 2, FALSE)>>,
     validation |-> [checksum |-> Some([name |-> Some("s10")]),
                     additional |-> Some([exists |-> <<"Courier">>])],
     additional |-> Some(<<
         [name |-> "Courier", regex_group_name |-> "CountryCode",
          lookup |-> <<[matches |-> << <<"G", "B">> >>,
                        country |-> Some("Great Britain"),
                        courier |-> Some("Royal Mail Group plc"),
                        courier_url |-> Some("http://www.royalmail.com/postcode-finder?gear=postcode&campaignid=postcodefinder_redirect"),
                        upu_reference_url |-> Some("http://www.upu.int/en/the-upu/member-countries/western-europe/great-britain.html")]>>],
         [name |-> "Service Type", regex_group_name |-> "ServiceType",
          lookup |-> <<[matches |-> << <<"R", "B">> >>,
                        name |-> Some("Letter Post Registered"),
                        description |-> Some("Prepaid first-class mail.")]>>]>>)]

\* (?P<CountryCode>[A-Z])(?P<SerialNumber>[0-9 ]{1,2})(?P<CheckDigit>[0-9]):
\* an s10 format of three or four symbols
Spec_S10_Short ==
    [name |-> "S10",
     regex |-> <<Group("CountryCode", ALPHA, 1, 1, FALSE),
                 Group("SerialNumber", DIGIT \cup {" "}, 1, 2, FALSE),
                 Group("CheckDigit", DIGIT, 1, 1, FALSE)>>,
     tracking_url |-> Some(<<"t", "?", "%s">>),
     validation |-> [checksum |-> Some([name |-> Some("s10")]),
                     additional |-> Some([exists |-> <<"Courier">>])],
     additional |-> Some(<<
         [name |-> "Courier", regex_group_name |-> "CountryCode",
          lookup |-> <<[matches |-> << <<"A">> >>,
                        courier |-> Some("Royal Mail Group plc"),
                        courier_url |-> Some("http://www.royalmail.com")]>>]>>)]

\* (?P<SerialNumber>[0-9]{2})(?P<CheckDigit>[0-9])?
Spec_Mod10 ==
    [name |-> "Mod10",
     regex |-> <<Group("SerialNumber", DIGIT, 2, 2, FALSE),
                 Group("CheckDigit", DIGIT, 1, 1, TRUE)>>,
     validation |-> [checksum |-> Some([name |-> Some("mod10"),
                                        evens_multiplier |-> Some(3),
                                        odds_multiplier |-> Some(1)])],
     additional |-> Some(<<
         [name |-> "Courier", regex_group_name |-> "SerialNumber",
          lookup |-> <<[matches_regex |-> <<Group("value", {"0", "1"}, 2, 2, FALSE)>>,
                        courier |-> Some("Landmark Global"),
                        name |-> Some("Landmark")]>>]>>)]

\* (?P<SerialNumber>[0-9A-Z]{2})(?P<CheckDigit>[0-9]), of the courier "ups"
Spec_UPS ==
    [name |-> "UPS",
     regex |-> <<Group("SerialNumber", ALNUM, 2, 2, FALSE),
                 Group("CheckDigit", DIGIT, 1, 1, FALSE)>>,
     tracking_url |-> Some(<<"u", "?", "%s">>),
     validation |-> [checksum |-> Some([name |-> Some("mod10"),
                                        evens_multiplier |-> Some(2),
                                        odds_multiplier |-> Some(1)])]]

\* (?P<SerialNumber>[0-9A-Z]{2})(?P<CheckDigit>[0-9A-Z])
Spec_Mod7 ==
    [name |-> "Mod7",
     regex |-> <<Group("SerialNumber", ALNUM, 2, 2, FALSE),
                 Group("CheckDigit", ALNUM, 1, 1, FALSE)>>,
     tracking_url |-> Some(<<"%s">>),
     validation |-> [checksum |-> Some([name |-> Some("mod7")]),
                     additional |-> Some([other |-> << >>])]]

Spec_Mod_37_36 ==
    [name |-> "Mod_37_36",
     regex |-> <<Group("SerialNumber", ALNUM, 2, 2, FALSE),
                 Group("CheckDigit", ALNUM, 1, 1, FALSE)>>,
     validation |-> [checksum |-> Some([name |-> Some("mod_37_36")])]]

\* (?P<SerialNumber>[0-9]{1,2})?(?P<CheckDigit>[0-9])
Spec_SumProduct ==
    [name |-> "SumProduct",
     regex |-> <<Group("SerialNumber", DIGIT, 1, 2, TRUE),
                 Group("CheckDigit", DIGIT, 1, 1, FALSE)>>,
     validation |-> [checksum |->
                         Some([name |-> Some("sum_product_with_weightings_and_modulo"),
                               weightings |-> <<1, 2, 3>>,
                               modulo1 |-> 10, modulo2 |-> 5])]]

\* (?P<SerialNumber>[0-9 ]{2})(?P<CheckDigit>[0-9])
Spec_Luhn ==
    [name |-> "Luhn",
     regex |-> <<Group("SerialNumber", DIGIT \cup {" "}, 2, 2, FALSE),
                 Group("CheckDigit", DIGIT, 1, 1, FALSE)>>,
     validation |-> [checksum |-> Some([name |-> Some("luhn")])]]

\* (?P<CountryCode>[0-9A-Z])(?P<ServiceType>[0-9A-Z ])(?P<CheckDigit>[0-9A-Z])?
\* with no checksum, overlapping matchers, an entry with no descriptive field
\* and a null field
Spec_Plain ==
    [name |-> "Plain",
     regex |-> <<Group("CountryCode", ALNUM, 1, 1, FALSE),
                 Group("ServiceType", ALNUM \cup {" "}, 1, 1, FALSE),
                 Group("CheckDigit", ALNUM, 1, 1, TRUE)>>,
     validation |-> [additional |-> Some([exists |-> <<"Service Type", "Courier">>])],
     additional |-> Some(<<
         [name |-> "Courier", regex_group_name |-> "CountryCode",
          lookup |-> <<[matches |-> << <<"A">>, <<"W">> >>, country |-> Some("Norway")],
                       [matches |-> << <<"A">> >>, courier |-> Some("Posten")],
                       [matches |-> << <<"0">> >>],
                       [matches_regex |-> <<Group("value", DIGIT, 1, 1, FALSE)>>,
                        courier |-> None]>>],
         [name |-> "Service Type", regex_group_name |-> "ServiceType",
          lookup |-> <<[matches |-> << <<"W">>, <<"5">> >>,
                        name |-> Some("Express")]>>]>>)]

\* a checksum sub-object that is empty
Spec_EmptyChecksum ==
    [name |-> "EmptyChecksum",
     regex |-> <<Group("SerialNumber", ALNUM, 1, 2, FALSE)>>,
     validation |-> [checksum |-> Some(<< >>)]]

\* a checksum sub-object naming a strategy that does not exist
Spec_UnknownChecksum ==
    [name |-> "UnknownChecksum",
     regex |-> <<Group("SerialNumber", ALNUM, 2, 2, FALSE),
                 Group("CheckDigit", ALNUM, 1, 1, FALSE)>>,
     validation |-> [checksum |-> Some([name |-> Some("mod11")])]]

\* a checksum sub-object with parameters and no name
Spec_UnnamedChecksum ==
    [name |-> "UnnamedChecksum",
     regex |-> <<Group("SerialNumber", DIGIT, 2, 2, FALSE),
                 Group("CheckDigit", DIGIT, 1, 1, FALSE)>>,
     validation |-> [checksum |-> Some([odds_multiplier |-> Some(3)])]]

Courier(code, name) == [code |-> code, name |-> name]

\* the courier specifications: a Courier and one of its tracking-number specs
SpecFiles ==
    {<<Courier("s10", "S10 International Standard"), Spec_S10_Short>>,
     <<Courier("landmark", "Landmark Global"), Spec_Mod10>>,
     <<Courier("ups", "UPS"), Spec_UPS>>,
     <<Courier("dhl", "DHL"), Spec_Mod7>>,
     <<Courier("dpd", "DPD"), Spec_Mod_37_36>>,
     <<Courier("fedex", "FedEx"), Spec_SumProduct>>,
     <<Courier("old_dominion", "Old Dominion"), Spec_Luhn>>,
     <<Courier("plain", "Plain Post"), Spec_Plain>>,
     <<Courier("plain", "Plain Post"), Spec_EmptyChecksum>>,
     <<Courier("dhl", "DHL"), Spec_UnknownChecksum>>,
     <<Courier("landmark", "Landmark Global"), Spec_UnnamedChecksum>>}

\* the symbols of the candidate strings
Alphabet == {"0", "1", "5", "A", "W", " "}

StringsUpTo(n) == UNION {[1..k -> Alphabet] : k \in 0..n}

\* the tracking numbers of tests/test_additional_information.py, and the
\* first of them with another check digit
TestNumbers ==
    {<<"R", "B", "1", "2", "3", "4", "5", "6", "7", "8", "5", "G", "B">>,
     <<"A", "B", "1", "2", "3", "4", "5", "6", "7", "8", "5", "N", "P">>,
     <<"R", "B", "1", "2", "3", "4", "5", "6", "7", "8", "4", "G", "B">>}

Candidates == StringsUpTo(MaxLen) \cup TestNumbers

\* courier and tn_spec of tests/test_additional_information.py
TestFile == <<Courier("s10", "S10 International Standard"), Spec_S10>>

----------------------------------------------------------------------------
(* The catalog: loading it, and the calls on it *)

NoCall == [kind |-> "none"]

Init ==
    /\ catalog = << >>
    /\ op = NoCall

\* a call of from_spec: it returns a Definition or raises, and leaves
\* DEFINITIONS as it is
FromSpec ==
    /\ op = NoCall
    /\ \E file \in SpecFiles :
        \E outcome \in TrackingNumberDefinition_from_spec(file[1], file[2]) :
            /\ op' = [kind |-> "from_spec", courier |-> file[1], tn_spec |-> file[2],
                      outcome |-> outcome]
            /\ UNCHANGED catalog

\* the catalog loader puts the Definition from_spec has just returned at the
\* end of DEFINITIONS
LoadDefinition ==
    /\ op.kind = "from_spec"
    /\ ~op.outcome.raised
    /\ Len(catalog) < MaxCatalog
    /\ catalog' = Append(catalog, op.outcome.v)
    /\ op' = NoCall

\* a call of test; definition.py:162-192 assigns no attribute of self
Test ==
    /\ op = NoCall
    /\ \E i \in DOMAIN catalog, tracking_number \in Candidates :
        /\ op' = [kind |-> "test", self |-> i, tracking_number |-> tracking_number,
                  outcome |-> test(catalog[i], tracking_number)]
        /\ UNCHANGED catalog

\* a caller reads the courier_info view of the result it was just given
CourierInfo ==
    /\ op.kind = "test"
    /\ ~op.outcome.raised
    /\ ~IsNone(op.outcome.v)
    /\ op' = [kind |-> "courier_info", self |-> op.self,
              tracking_number |-> Val(op.outcome.v),
              info |-> courier_info(Val(op.outcome.v))]
    /\ UNCHANGED catalog

GetTrackingNumber ==
    /\ op = NoCall
    /\ \E number \in Candidates, validate \in BOOLEAN :
        /\ op' = [kind |-> "get_tracking_number", number |-> number,
                  validate |-> validate,
                  outcome |-> get_tracking_number(catalog, number, validate)]
        /\ UNCHANGED catalog

PossibleTrackingNumber ==
    /\ op = NoCall
    /\ \E number \in Candidates :
        /\ op' = [kind |-> "possible_tracking_number", number |-> number,
                  outcome |-> possible_tracking_number(catalog, number)]
        /\ UNCHANGED catalog

\* the caller is done with what the last call gave it
Drop ==
    /\ op # NoCall
    /\ op' = NoCall
    /\ UNCHANGED catalog

Next ==
    \/ FromSpec
    \/ LoadDefinition
    \/ Test
    \/ CourierInfo
    \/ GetTrackingNumber
    \/ PossibleTrackingNumber
    \/ Drop

Spec == Init /\ [][Next]_vars

----------------------------------------------------------------------------
(* The catalog loader on its own: Definitions are built and loaded, nothing  *)
(* is tested                                                                *)

NextLoad ==
    \/ FromSpec
    \/ LoadDefinition
    \/ Drop

SpecLoad == Init /\ [][NextLoad]_vars

----------------------------------------------------------------------------
(* One Definition, built once and then only tested, as                      *)
(* tests/test_additional_information.py does                                *)

\* the Definitions the construction yields for a specification file
Built(file) == {o \in TrackingNumberDefinition_from_spec(file[1], file[2]) : ~o.raised}

InitTest ==
    /\ catalog \in {<<o.v>> : o \in UNION {Built(file) : file \in SpecFiles \cup {TestFile}}}
    /\ op = NoCall

NextTest ==
    \/ Test
    \/ CourierInfo
    \/ Drop

SpecTest == InitTest /\ [][NextTest]_vars

----------------------------------------------------------------------------
(* The checksum validators called on their own, as tests/test_checksum_validators.py does *)

Validators ==
    {S10, Mod7, Mod10(None, None), Mod10(Some(1), Some(3)), Mod_37_36,
     SumProductWithWeightsAndModulo(<<1, 2, 3>>, 10, 5), Luhn}

\* the serial numbers and the check-digit strings handed to passes: ASCII and
\* other digits, a letter, a sign, an underscore, whitespace
PassesSerials ==
    UNION {[1..k -> {"5", "A"}] : k \in 0..MaxSerialLen} \cup {<<"۵">>, <<"۵", "5">>}
PassesCheckDigits ==
    UNION {[1..k -> {"0", "5", "A", " ", "+", "-", "_", "۵"}] : k \in 0..MaxCheckLen}

Passes ==
    /\ op = NoCall
    /\ \E self \in Validators, serial_number \in PassesSerials,
       check_digit \in PassesCheckDigits :
        /\ op' = [kind |-> "passes", self |-> self, serial_number |-> serial_number,
                  check_digit |-> check_digit,
                  outcome |-> passes(self, serial_number, PyStr(check_digit))]
        /\ UNCHANGED catalog

NextChecksum ==
    \/ Passes
    \/ Drop

SpecChecksum == Init /\ [][NextChecksum]_vars

----------------------------------------------------------------------------
(* _check_digit of the validators called on its own, as                     *)
(* tests/test_checksum_validators.py does for the serials no variant but    *)
(* Mod_37_36 can take                                                       *)

\* the 36 symbols of a serial number
Symbols36 == Range(Digits) \cup Range(UpperLetters)

\* symbols past the 36: lower-case and accented letters, a letter with no
\* case, the sharp s, digits of other scripts, a superscript, a sign, a blank
\* (TLC tells two states apart by the low byte of each character of their
\* strings, so no two symbols of the inputs share a low byte)
OtherSymbols == {"a", "z", "é", "É", "ª", "ß", "۵", "߁", "²", "+", " "}

\* the serial numbers of serials_and_checks and of test_valid_Mod_37_36_checksum
SerialExamples ==
    {<<"1", "2", "3", "4", "5", "6", "7", "8">>, <<"4", "5", "6", "7", "8">>,
     <<"0", "0", "0", "0", "7">>, <<"A", "1", "2", "3", "4", "5">>,
     <<"1", "2", "3", "A", "B">>, <<"A", "B", "C", "9", "8", "7">>}

\* serial numbers of zeros but for one symbol at any position
OneSymbolSerials ==
    {[i \in 1..k |-> IF i = p THEN c ELSE "0"] :
        k \in 1..MaxDigitLen, p \in 1..MaxDigitLen, c \in Symbols36 \cup OtherSymbols}

\* the serial numbers handed to _check_digit
SerialInputs ==
    UNION {[1..k -> {"1", "7"}] : k \in 0..MaxDigitLen}
        \cup UNION {[1..k -> {"7", "A"}] : k \in 0..MaxDigitLen}
        \cup UNION {[1..k -> Symbols36] : k \in 0..MaxSymbolLen}
        \cup UNION {[1..k -> OtherSymbols \cup {"0", "A"}] : k \in 0..MaxSymbolLen}
        \cup OneSymbolSerials
        \cup SerialExamples

CheckDigit ==
    /\ op = NoCall
    /\ \E self \in Validators, serial_number \in SerialInputs :
        /\ op' = [kind |-> "_check_digit", self |-> self,
                  serial_number |-> serial_number,
                  outcome |-> check_digit_of(self, serial_number)]
        /\ UNCHANGED catalog

NextDigit ==
    \/ CheckDigit
    \/ Drop

SpecDigit == Init /\ [][NextDigit]_vars

----------------------------------------------------------------------------
(* A caller that writes to the result it was given. test builds the result  *)
(* with courier=self.courier and product=self.product (lines 185-186) and   *)
(* with the Info _get_additional returns, which is the dict of the matching *)
(* pair itself (line 257): a write through the result to one of these       *)
(* objects is a write to the object the Definition holds                    *)

\* the position in value_matchers of the pair whose Info _get_additional
\* returns for the value; 0 if no pair matches
RECURSIVE FirstMatchIndex(_, _, _)
FirstMatchIndex(value_matchers, value, j) ==
    IF j > Len(value_matchers) THEN 0
    ELSE IF ValueMatcher_matches(value_matchers[j][1], value) THEN j
    ELSE FirstMatchIndex(value_matchers, value, j + 1)

\* the extractors of self whose Info the loop of test stores under the name
InfoStoredBy(self, match_data, name) ==
    {i \in DOMAIN self.additional :
        /\ self.additional[i].name = name
        /\ ~IsNone(_get_additional(self.additional[i], match_data))
        /\ Val(_get_additional(self.additional[i], match_data)) # << >>}

\* the extractor whose Info the result holds under the name: the last one
\* that stored it
InfoOwner(self, match_data, name) ==
    CHOOSE i \in InfoStoredBy(self, match_data, name) :
        \A j \in InfoStoredBy(self, match_data, name) : j <= i

\* the pair of that extractor whose Info it is
InfoPair(self, match_data, name) ==
    FirstMatchIndex(
        self.additional[InfoOwner(self, match_data, name)].value_matchers,
        _remove_whitespace(Val(Get(match_data,
            self.additional[InfoOwner(self, match_data, name)].regex_group_name))),
        1)

\* info[k] = v on a dict: the value of an existing key is replaced in place, a
\* new key goes last
dict_setitem(info, k, v) ==
    IF \E j \in DOMAIN info : info[j][1] = k
    THEN [j \in DOMAIN info |-> IF info[j][1] = k THEN <<k, v>> ELSE info[j]]
    ELSE Append(info, <<k, v>>)

\* what the caller's write leaves in op: the Definition and the outcome as
\* they were when test returned, and the result as the caller has made it
Mutated(result) ==
    [kind |-> "mutate", self |-> op.self, tracking_number |-> op.tracking_number,
     definition |-> catalog[op.self], returned |-> op.outcome, result |-> result]

\* the last call was a call of test and the caller holds its result
HoldsResult == op.kind = "test" /\ ~op.outcome.raised /\ ~IsNone(op.outcome.v)

\* result.courier.name = "X": the Courier is self.courier
MutateCourier ==
    /\ HoldsResult
    /\ catalog' = [catalog EXCEPT ![op.self].courier.name = "X"]
    /\ op' = Mutated([Val(op.outcome.v) EXCEPT !.courier.name = "X"])

\* result.product.name = "X": the Product is self.product
MutateProduct ==
    /\ HoldsResult
    /\ catalog' = [catalog EXCEPT ![op.self].product.name = "X"]
    /\ op' = Mutated([Val(op.outcome.v) EXCEPT !.product.name = "X"])

\* result.additional[name]["courier"] = "X": the Info is the dict of the
\* matching pair
MutateInfo ==
    /\ HoldsResult
    /\ \E name \in DOMAIN Val(op.outcome.v).additional :
        /\ catalog' =
               [catalog EXCEPT
                    ![op.self].additional[InfoOwner(catalog[op.self],
                                                    Val(op.outcome.v).match_data, name)]
                              .value_matchers[InfoPair(catalog[op.self],
                                                       Val(op.outcome.v).match_data, name)][2]
                        = dict_setitem(@, "courier", Some("X"))]
        /\ op' = Mutated([Val(op.outcome.v) EXCEPT
                              !.additional[name] = dict_setitem(@, "courier", Some("X"))])

\* writes to what test made for this result alone: the groupdict of the match
\* (line 167), the list of errors (lines 177-181), the additional dict (171)
MutateOwn ==
    /\ HoldsResult
    /\ \/ op' = Mutated([Val(op.outcome.v) EXCEPT
                             !.match_data = ("CheckDigit" :> Some(<<"X">>)) @@ @])
       \/ op' = Mutated([Val(op.outcome.v) EXCEPT
                             !.validation_errors = Append(@, <<"note", "X">>)])
       \/ op' = Mutated([Val(op.outcome.v) EXCEPT
                             !.additional = ("Courier" :> << <<"note", Some("X")>> >>) @@ @])
    /\ UNCHANGED catalog

NextOwner ==
    \/ Test
    \/ MutateCourier
    \/ MutateProduct
    \/ MutateInfo
    \/ MutateOwn
    \/ Drop

SpecOwner == InitTest /\ [][NextOwner]_vars

----------------------------------------------------------------------------
(* Properties of test                                                       *)

\* the candidate of the last call of test fully matches the number_regex of
\* the Definition the call was made on
Matched == ~IsNone(fullmatch(catalog[op.self].number_regex, op.tracking_number))

\* the last call was a call of test and it returned a TrackingNumber
Tested == op.kind = "test" /\ ~op.outcome.raised /\ ~IsNone(op.outcome.v)

\* the errors of a result that are checksum errors / that are not
ChecksumErrorsOf(r) == SelectSeq(r.validation_errors, LAMBDA e : e[1] = "checksum")
OtherErrorsOf(r) == SelectSeq(r.validation_errors, LAMBDA e : e[1] # "checksum")

\* C1: for every Definition and every candidate that fully matches its
\* number_regex, test returns a TrackingNumber and raises nothing: what is
\* wrong with the number is carried as validation_errors of the result.
C1_TestNeverRaises ==
    (op.kind = "test" /\ Matched) => (~op.outcome.raised /\ ~IsNone(op.outcome.v))

\* C2: test returns the absent value exactly when the candidate does not fully
\* match number_regex, raises nothing, and every present result has number
\* equal to the candidate string as given.
C2_AbsentIffNoFullMatch ==
    op.kind = "test" =>
        /\ ~op.outcome.raised
        /\ IsNone(op.outcome.v) <=> ~Matched
        /\ ~IsNone(op.outcome.v) => Val(op.outcome.v).number = op.tracking_number

\* the checksum error the first applicable rule gives: none without a
\* validator; "SerialNumber not found" for an absent or empty serial number;
\* else "CheckDigit not found" for an absent or empty CheckDigit capture; else
\* "Checksum validation failed" exactly when passes of the validator, called
\* with the captured CheckDigit, is not true
FirstApplicableChecksumError(self, serial_number, check_digit) ==
    IF IsNone(self.checksum_validator) THEN << >>
    ELSE IF IsNone(serial_number) \/ Val(serial_number) = << >>
    THEN << <<"checksum", "SerialNumber not found">> >>
    ELSE IF IsNone(check_digit) \/ Val(check_digit) = << >>
    THEN << <<"checksum", "CheckDigit not found">> >>
    ELSE IF passes(Val(self.checksum_validator), Val(serial_number),
                   PyStr(Val(check_digit))) = Return(TRUE)
    THEN << >>
    ELSE << <<"checksum", "Checksum validation failed">> >>

\* the checksum errors of a result are the ones the first applicable rule
\* gives, and a checksum error is the first of the validation errors
ChecksumErrorsAsRuled(self, r) ==
    /\ ChecksumErrorsOf(r) =
           FirstApplicableChecksumError(self, r.serial_number, Get(r.match_data, "CheckDigit"))
    /\ ChecksumErrorsOf(r) # << >> => r.validation_errors[1] = ChecksumErrorsOf(r)[1]

\* C3: with a checksum validator, the checksum error of a result is decided by
\* the first applicable rule (serial number, then CheckDigit, then passes);
\* without a validator there is none; it precedes every other error.
C3_ChecksumErrorPrecedence ==
    Tested => ChecksumErrorsAsRuled(catalog[op.self], Val(op.outcome.v))

\* the keys of the required list that are no key of the extracted additional
\* mapping, in the order of the required list
RECURSIVE MissingKeys(_, _)
MissingKeys(required, additional) ==
    IF required = << >> THEN << >>
    ELSE (IF Head(required) \in DOMAIN additional THEN << >> ELSE <<Head(required)>>)
         \o MissingKeys(Tail(required), additional)

\* the required list of a Definition: empty without an AdditionalValidator
RequiredKeys(self) ==
    IF IsNone(self.additional_validator) THEN << >>
    ELSE Val(self.additional_validator).exists

\* the errors are one (key, "<key> not found in additional information") for
\* each of the keys, in their order
OneErrorPerKey(errors, keys) ==
    /\ Len(errors) = Len(keys)
    /\ \A j \in DOMAIN keys :
           errors[j] = <<keys[j], keys[j] \o " not found in additional information">>

\* the number of the validation errors of a result that have the kind
CountOfKind(r, kind) ==
    Cardinality({j \in DOMAIN r.validation_errors : r.validation_errors[j][1] = kind})

\* C4: for every result of test, the validation errors that are no checksum
\* error are exactly one error per required key that is no key of the result's
\* additional mapping, in required-list order (none without an
\* AdditionalValidator); a required "Courier" that was not extracted gives an
\* invalid result with exactly one error of kind "Courier".
C4_RequiredFieldsEnforced ==
    Tested =>
        /\ OneErrorPerKey(OtherErrorsOf(Val(op.outcome.v)),
                          MissingKeys(RequiredKeys(catalog[op.self]),
                                      Val(op.outcome.v).additional))
        /\ ("Courier" \in Range(RequiredKeys(catalog[op.self]))
                /\ "Courier" \notin DOMAIN Val(op.outcome.v).additional)
           => (CountOfKind(Val(op.outcome.v), "Courier") = 1 /\ ~valid(Val(op.outcome.v)))

\* C4 witness: a result of a Definition that requires "Courier", for a number
\* no matcher of the "Courier" extractor matched: it is invalid with the one
\* error of kind "Courier"
C4_Witness ==
    /\ Tested
    /\ "Courier" \in Range(RequiredKeys(catalog[op.self]))
    /\ "Courier" \notin DOMAIN Val(op.outcome.v).additional
    /\ Val(op.outcome.v).validation_errors =
           << <<"Courier", "Courier not found in additional information">> >>

\* the string without the whitespace int() allows around a number
Trimmed(s) ==
    IF \A i \in DOMAIN s : s[i] \in IntWhitespace THEN << >>
    ELSE SubSeq(s, CHOOSE i \in DOMAIN s :
                       s[i] \notin IntWhitespace /\ \A j \in 1..(i - 1) : s[j] \in IntWhitespace,
                   CHOOSE i \in DOMAIN s :
                       s[i] \notin IntWhitespace /\ \A j \in (i + 1)..Len(s) : s[j] \in IntWhitespace)

\* the digit 0..9 a decimal digit of any script stands for
ScriptDigit(c) ==
    CHOOSE v \in 0..9 : \E k \in DOMAIN DecimalRuns : SubSeq(DecimalRuns[k], v + 1, v + 1) = c

\* the number a run of decimal digits denotes
RECURSIVE DecimalValue(_)
DecimalValue(s) ==
    IF s = << >> THEN 0
    ELSE 10 * DecimalValue(SubSeq(s, 1, Len(s) - 1)) + ScriptDigit(s[Len(s)])

HasSign(s) == s # << >> /\ s[1] \in {"+", "-"}
Unsigned(s) == IF HasSign(s) THEN Tail(s) ELSE s

\* every symbol is a decimal digit, or an underscore between two digits
DigitsWithUnderscores(s) ==
    /\ s # << >>
    /\ \A i \in DOMAIN s :
           \/ s[i] \in DecimalDigits
           \/ /\ s[i] = "_"
              /\ 1 < i /\ i < Len(s)
              /\ s[i - 1] \in DecimalDigits /\ s[i + 1] \in DecimalDigits

\* the check-digit string is a number as int() writes one: an optional sign
\* and decimal digits of any script, single underscores between digits and
\* whitespace around the whole allowed
ParsesAsNumber(s) == DigitsWithUnderscores(Unsigned(Trimmed(s)))

\* the number such a string denotes
NumberOf(s) ==
    LET magnitude == DecimalValue(SelectSeq(Unsigned(Trimmed(s)), LAMBDA c : c # "_"))
    IN  IF Trimmed(s)[1] = "-" THEN 0 - magnitude ELSE magnitude

\* the check-digit string equals the computed digit under the representation
\* of the variant: the string itself for Mod_37_36, the number it denotes for
\* the numeric variants (no number, no equality)
EqualsComputed(self, check_digit, computed) ==
    IF self.cls = "Mod_37_36" THEN PyEq(PyStr(check_digit), computed)
    ELSE ParsesAsNumber(check_digit)
         /\ PyEq(PyNum(NumberOf(check_digit)), computed)

\* passes neither raised nor answered other than the equality says
PassesAsComputed(self, check_digit, computed, outcome) ==
    ~computed.raised => outcome = Return(EqualsComputed(self, check_digit, computed.v))

\* C5: for every checksum variant, every serial number the variant computes a
\* digit for and every check-digit string, passes is true exactly when the
\* check digit (as a number for the numeric variants, as the string itself for
\* Mod_37_36) equals the computed digit; for a check digit that does not parse
\* it is false, and passes does not raise.
C5_PassesIffDigitMatches ==
    op.kind = "passes" =>
        PassesAsComputed(op.self, op.check_digit,
                         check_digit_of(op.self, op.serial_number), op.outcome)

\* C5 witness: a numeric variant said true for a check digit written with a
\* sign and a digit of another script (int("+\u06F5") is 5)
C5_Witness ==
    /\ op.kind = "passes"
    /\ op.self.cls = "S10"
    /\ op.check_digit = <<"+", "۵">>
    /\ check_digit_of(op.self, op.serial_number) = Return(PyNum(5))
    /\ op.outcome = Return(TRUE)

\* the match has a CheckDigit capture and the parser gives a serial number
SerialAndCheckDigitPresent(self, match_data) ==
    /\ ~IsNone(Get(match_data, "CheckDigit"))
    /\ ~IsNone(_get_serial_number(self, match_data))

\* the Definition of the last call of test validates with Mod_37_36, and the
\* candidate matched with a serial number and a CheckDigit capture present
Mod_37_36_Tested ==
    /\ op.kind = "test"
    /\ Matched
    /\ catalog[op.self].checksum_validator = Some(Mod_37_36)
    /\ SerialAndCheckDigitPresent(catalog[op.self],
                                  Val(fullmatch(catalog[op.self].number_regex,
                                                op.tracking_number)))

\* the result of the call has no checksum error
NoChecksumError == Tested /\ ChecksumErrorsOf(Val(op.outcome.v)) = << >>

\* the CheckDigit the candidate of the call carries equals the rendered
\* Mod_37_36 digit of the serial number the parser gives for it
CheckDigitIsRendered(self, match_data) ==
    Mod_37_36_check_digit(Val(_get_serial_number(self, match_data)))
        = Return(PyStr(Val(Get(match_data, "CheckDigit"))))

\* C6: for a Definition validating with Mod_37_36, a matching candidate with
\* serial number and CheckDigit present has a result with no checksum error
\* exactly when the captured CheckDigit string equals the rendered Mod_37_36
\* digit of the parsed serial number, be that digit a letter or a digit
\* character.
C6_Mod_37_36_ComparesStrings ==
    Mod_37_36_Tested =>
        (NoChecksumError <=>
             CheckDigitIsRendered(catalog[op.self],
                                  Val(fullmatch(catalog[op.self].number_regex,
                                                op.tracking_number))))

----------------------------------------------------------------------------
(* Properties of the catalog                                                *)

\* the call of test returned a TrackingNumber that qualifies: any with
\* validate false, a valid one with validate true
Qualifies(outcome, validate) ==
    /\ ~outcome.raised
    /\ ~IsNone(outcome.v)
    /\ validate => valid(Val(outcome.v))

\* the test result of the first Definition, in catalog order, whose result
\* qualifies; None if there is none
FirstQualifying(DEFINITIONS, number, validate) ==
    IF \E i \in DOMAIN DEFINITIONS : Qualifies(test(DEFINITIONS[i], number), validate)
    THEN test(DEFINITIONS[CHOOSE i \in DOMAIN DEFINITIONS :
                  /\ Qualifies(test(DEFINITIONS[i], number), validate)
                  /\ \A j \in 1..(i - 1) :
                         ~Qualifies(test(DEFINITIONS[j], number), validate)],
              number).v
    ELSE None

\* every present test result of the Definitions, in catalog order
RECURSIVE EveryPresent(_, _)
EveryPresent(DEFINITIONS, number) ==
    IF DEFINITIONS = << >> THEN << >>
    ELSE (IF Qualifies(test(Head(DEFINITIONS), number), FALSE)
          THEN <<Val(test(Head(DEFINITIONS), number).v)>> ELSE << >>)
         \o EveryPresent(Tail(DEFINITIONS), number)

\* the first element of a list as an optional value
FirstOf(list) == IF list = << >> THEN None ELSE Some(Head(list))

\* C8: get_tracking_number returns the test result of the first Definition in
\* catalog order whose result is present and, with validate true, valid, and
\* None only if no Definition qualifies; possible_tracking_number lists every
\* present result in catalog order, and with validate false
\* get_tracking_number returns the first element of that list.
C8_CatalogLookupOrder ==
    /\ op.kind = "get_tracking_number" =>
           /\ op.outcome = Return(FirstQualifying(catalog, op.number, op.validate))
           /\ ~op.validate => op.outcome = Return(FirstOf(EveryPresent(catalog, op.number)))
    /\ op.kind = "possible_tracking_number" =>
           op.outcome = Return(EveryPresent(catalog, op.number))

\* the strategy names ChecksumValidator.from_spec recognises, and the variant
\* of each
KnownStrategies ==
    [s10 |-> "S10", mod7 |-> "Mod7", mod10 |-> "Mod10", mod_37_36 |-> "Mod_37_36",
     sum_product_with_weightings_and_modulo |-> "SumProductWithWeightsAndModulo",
     luhn |-> "Luhn"]

\* the checksum sub-object of a validation specification is there (and not
\* empty) and names no recognised strategy
NamesUnknownStrategy(validation_spec) ==
    /\ ~IsNone(Get(validation_spec, "checksum"))
    /\ DOMAIN Val(Get(validation_spec, "checksum")) # {}
    /\ \/ IsNone(Get(Val(Get(validation_spec, "checksum")), "name"))
       \/ Val(Get(Val(Get(validation_spec, "checksum")), "name")) \notin DOMAIN KnownStrategies

\* the checksum sub-object names a recognised strategy
NamesKnownStrategy(validation_spec) ==
    /\ ~IsNone(Get(validation_spec, "checksum"))
    /\ ~IsNone(Get(Val(Get(validation_spec, "checksum")), "name"))
    /\ Val(Get(Val(Get(validation_spec, "checksum")), "name")) \in DOMAIN KnownStrategies

\* the variant the strategy name of the checksum sub-object stands for
VariantNamed(validation_spec) ==
    KnownStrategies[Val(Get(Val(Get(validation_spec, "checksum")), "name"))]

\* the specification files of the loader whose checksum names no recognised
\* strategy
UnknownStrategyFiles == {file \in SpecFiles : NamesUnknownStrategy(file[2].validation)}

\* C9: a specification whose checksum sub-object names a strategy outside the
\* recognised ones fails construction at once with a configuration error, so
\* the catalog never holds a Definition of such a specification; without a
\* checksum sub-object the Definition has no validator; a recognised name
\* gives the variant of that name.
C9_UnknownStrategyFailsConstruction ==
    /\ op.kind = "from_spec" =>
           /\ NamesUnknownStrategy(op.tn_spec.validation) =>
                  op.outcome = Raise("ValueError")
           /\ IsNone(Get(op.tn_spec.validation, "checksum")) =>
                  (~op.outcome.raised /\ IsNone(op.outcome.v.checksum_validator))
           /\ NamesKnownStrategy(op.tn_spec.validation) =>
                  /\ ~op.outcome.raised
                  /\ ~IsNone(op.outcome.v.checksum_validator)
                  /\ Val(op.outcome.v.checksum_validator).cls =
                         VariantNamed(op.tn_spec.validation)
    /\ \A i \in DOMAIN catalog :
           \A file \in UnknownStrategyFiles : catalog[i].product.name # file[2].name

\* C9 witness: the loader gave a specification naming the strategy "mod11"
\* and the construction raised, with the catalog as it was
C9_Witness ==
    /\ op.kind = "from_spec"
    /\ NamesUnknownStrategy(op.tn_spec.validation)
    /\ Get(Val(Get(op.tn_spec.validation, "checksum")), "name") = Some("mod11")
    /\ op.outcome = Raise("ValueError")

----------------------------------------------------------------------------
(* Properties of the courier_info view                                      *)

\* the Info the extractor named "Courier" gave for a result: no item if it
\* gave none
CourierInfoOf(r) ==
    IF "Courier" \in DOMAIN r.additional THEN r.additional["Courier"] ELSE << >>

\* the Info has the key with a value that is not null
HasNonNull(I, k) == \E j \in DOMAIN I : I[j][1] = k /\ ~IsNone(I[j][2])

\* the value the Info has under the key
ValueAt(I, k) == I[CHOOSE j \in DOMAIN I : I[j][1] = k][2]

\* the keys of the Info with a value that is not null, but for the given ones
NonNullKeysBut(I, keys) == {I[j][1] : j \in {i \in DOMAIN I : ~IsNone(I[i][2])}} \ keys

\* the keys of the view, given the keys of the Info that decide name and url:
\* code and name, url if one of the Info keys "courier_url" and "url" has a
\* value, and every other key of the Info with a value
ViewKeys(I) ==
    {"code", "name"}
        \cup (IF HasNonNull(I, "courier_url") \/ HasNonNull(I, "url") THEN {"url"} ELSE {})
        \cup NonNullKeysBut(I, {"courier", "courier_url"})

\* the value of the view under a key that neither "courier" nor "courier_url"
\* of the Info decides: the value of the Info if it has one, else the field of
\* the Definition's own Courier
Inherited(I, courier, k) ==
    IF HasNonNull(I, k) THEN ValueAt(I, k) ELSE Some(courier[k])

\* the view agrees with the Info on every key but name and url
AgreesOnOtherKeys(view, I, courier) ==
    /\ DOMAIN view = ViewKeys(I)
    /\ view["code"] = Inherited(I, courier, "code")
    /\ \A k \in NonNullKeysBut(I, {"courier", "courier_url", "code", "name", "url"}) :
           view[k] = ValueAt(I, k)

\* Info key "courier" replaces name and "courier_url" is exposed as url,
\* whatever else the Info holds
CourierReplacesName(view, I, courier) ==
    /\ view["name"] = IF HasNonNull(I, "courier") THEN ValueAt(I, "courier")
                      ELSE Inherited(I, courier, "name")
    /\ HasNonNull(I, "courier_url") => view["url"] = ValueAt(I, "courier_url")
    /\ (~HasNonNull(I, "courier_url") /\ HasNonNull(I, "url")) => view["url"] = ValueAt(I, "url")

\* with no "Courier" Info the view is exactly {code, name} of the Definition's
\* own Courier
FallsBackToCourier(view, I, courier) ==
    I = << >> => view = [code |-> Some(courier.code), name |-> Some(courier.name)]

\* C10: courier_info is the Courier fields {code, name} of the Definition
\* overridden and extended by the "Courier" Info: Info key "courier" replaces
\* name, "courier_url" is exposed as url, every other key with a value is
\* copied under its own name, null values are ignored; with no "Courier" Info
\* it is exactly {code, name} of the Definition's Courier.  Violated where the
\* Info holds "courier" and "name" (or "courier_url" and "url") and from_spec
\* has put "courier" first: the loop of courier_info writes in the order of
\* the Info, and that order is the iteration order of a set of strings.
C10_CourierReplacesName ==
    op.kind = "courier_info" =>
        /\ AgreesOnOtherKeys(op.info, CourierInfoOf(op.tracking_number),
                             op.tracking_number.courier)
        /\ CourierReplacesName(op.info, CourierInfoOf(op.tracking_number),
                               op.tracking_number.courier)
        /\ FallsBackToCourier(op.info, CourierInfoOf(op.tracking_number),
                              op.tracking_number.courier)

----------------------------------------------------------------------------
(* Properties of the ownership of results                                   *)

\* C11: a result returned by test shares no mutable state with the
\* Definition: whatever the caller writes to the result (its courier, its
\* product, an Info of its additional mapping, its match data, its error
\* list), the Definition is as it was when test returned, and a later test of
\* the same string on it gives what the first call gave.
C11_ResultOwnedByCaller ==
    op.kind = "mutate" =>
        /\ catalog[op.self] = op.definition
        /\ test(catalog[op.self], op.tracking_number) = op.returned

----------------------------------------------------------------------------
(* Properties of the check digits                                           *)

\* the symbols of the serial number are decimal digits, of any script, all of them
AllDigits(serial_number) ==
    \A i \in DOMAIN serial_number : serial_number[i] \in DecimalDigits

\* sum of digit[i] * W[i] over the positions i below min(length, 8), with
\* W = [8, 6, 4, 2, 3, 5, 9, 7]
RECURSIVE S10Sum(_, _)
S10Sum(serial_number, n) ==
    IF n = 0 THEN 0
    ELSE S10Sum(serial_number, n - 1)
         + ScriptDigit(serial_number[n]) * <<8, 6, 4, 2, 3, 5, 9, 7>>[n]

\* f(total): 0 when total mod 11 is 1, 5 when it is 0, else 11 - (total mod 11)
S10Digit(total) ==
    IF total % 11 = 1 THEN 0
    ELSE IF total % 11 = 0 THEN 5
    ELSE 11 - (total % 11)

\* the digit of the call is the one the sum over the first 8 positions gives,
\* lies in 0..9, and is the digit of the first 8 symbols alone
S10DigitAsStated(serial_number, outcome) ==
    /\ outcome = Return(PyNum(S10Digit(S10Sum(serial_number, Min(Len(serial_number), 8)))))
    /\ outcome.v.v \in 0..9
    /\ outcome = check_digit_of(S10, SubSeq(serial_number, 1, Min(Len(serial_number), 8)))

\* "12345678" gives 5, "45678" gives 8, "00007" gives 1
S10Examples(serial_number, outcome) ==
    /\ serial_number = <<"1", "2", "3", "4", "5", "6", "7", "8">> => outcome = Return(PyNum(5))
    /\ serial_number = <<"4", "5", "6", "7", "8">> => outcome = Return(PyNum(8))
    /\ serial_number = <<"0", "0", "0", "0", "7">> => outcome = Return(PyNum(1))

\* C12: for every serial number of digit symbols, of any length, the S10 digit
\* is f(sum of digit[i] * W[i] for i below min(length, 8)); symbols at
\* positions 8 and beyond do not affect it, it lies in 0..9, and "12345678"
\* gives 5, "45678" gives 8, "00007" gives 1.
C12_S10CheckDigit ==
    (op.kind = "_check_digit" /\ op.self = S10 /\ AllDigits(op.serial_number)) =>
        /\ S10DigitAsStated(op.serial_number, op.outcome)
        /\ S10Examples(op.serial_number, op.outcome)

\* C12 witness: a serial number of nine digits, one more than S10 weighs,
\* whose weighted sum is a multiple of 11: the digit is 5
C12_Witness ==
    /\ op.kind = "_check_digit"
    /\ op.self = S10
    /\ AllDigits(op.serial_number)
    /\ Len(op.serial_number) = 9
    /\ S10Sum(op.serial_number, 8) % 11 = 0
    /\ op.outcome = Return(PyNum(5))

\* the symbols of the serial number are among 0-9 and A-Z, all of them
AllSymbols36(serial_number) ==
    \A i \in DOMAIN serial_number : serial_number[i] \in Symbols36

IndexOf(s, c) == CHOOSE i \in DOMAIN s : s[i] = c

\* the value a symbol of 0-9A-Z stands for: 0..9, then A = 10 to Z = 35
SymbolValue(c) ==
    IF c \in Range(Digits) THEN IndexOf(Digits, c) - 1 ELSE IndexOf(UpperLetters, c) + 9

\* the running values after each symbol step, from the running value cd
RECURSIVE RunningValues(_, _)
RunningValues(serial_number, cd) ==
    IF serial_number = << >> THEN << >>
    ELSE LET next == Mod_37_36_step(cd, SymbolValue(Head(serial_number)))
         IN  <<next>> \o RunningValues(Tail(serial_number), next)

\* the running value is in 1..36 after every symbol step
RunningInRange(running) == \A k \in DOMAIN running : running[k] \in 1..36

\* the final value: 37 less the last running value, 36 read as 0
FinalValue(running) ==
    LET cd == 37 - (IF running = << >> THEN 36 ELSE running[Len(running)])
    IN  IF cd = 36 THEN 0 ELSE cd

\* the call returns one character of 0-9A-Z, that of the final value, which
\* is in 0..35
OneSymbolReturned(running, outcome) ==
    /\ FinalValue(running) \in 0..35
    /\ ~outcome.raised
    /\ outcome.v.t = "str"
    /\ Len(outcome.v.v) = 1
    /\ outcome.v.v[1] \in Symbols36
    /\ SymbolValue(outcome.v.v[1]) = FinalValue(running)

\* "12345678" gives "W", "A12345" gives "J", "123AB" gives "X", "ABC987" gives "E"
Mod_37_36_Examples(serial_number, outcome) ==
    /\ serial_number = <<"1", "2", "3", "4", "5", "6", "7", "8">> => outcome = Return(PyStr(<<"W">>))
    /\ serial_number = <<"A", "1", "2", "3", "4", "5">> => outcome = Return(PyStr(<<"J">>))
    /\ serial_number = <<"1", "2", "3", "A", "B">> => outcome = Return(PyStr(<<"X">>))
    /\ serial_number = <<"A", "B", "C", "9", "8", "7">> => outcome = Return(PyStr(<<"E">>))

\* C14: for every serial number over 0-9 and A-Z the running value of
\* Mod_37_36 is in 1..36 after every symbol step and the final value in 0..35,
\* so the failure branch is never taken and the call returns exactly one
\* character of 0-9A-Z; "12345678" gives "W", "A12345" gives "J", "123AB"
\* gives "X", "ABC987" gives "E".
C14_Mod_37_36_RangeInvariant ==
    (op.kind = "_check_digit" /\ op.self = Mod_37_36 /\ AllSymbols36(op.serial_number)) =>
        /\ RunningInRange(RunningValues(op.serial_number, MOD))
        /\ OneSymbolReturned(RunningValues(op.serial_number, MOD), op.outcome)
        /\ Mod_37_36_Examples(op.serial_number, op.outcome)

\* C14 witness: the serial number "A12345", a letter among digits, gives "J"
C14_Witness ==
    /\ op.kind = "_check_digit"
    /\ op.self = Mod_37_36
    /\ op.serial_number = <<"A", "1", "2", "3", "4", "5">>
    /\ RunningInRange(RunningValues(op.serial_number, MOD))
    /\ op.outcome = Return(PyStr(<<"J">>))

\* the positions of the serial number that hold a letter
LetterPositions(serial_number) ==
    {i \in DOMAIN serial_number : isalpha(serial_number[i])}

\* the positions of the serial number the variant reads: those paired with a
\* weight for S10 and SumProductWithWeightsAndModulo, all of them for the rest
PositionsRead(self, serial_number) ==
    IF self.cls = "S10" THEN 1..Min(Len(serial_number), 8)
    ELSE IF self.cls = "SumProductWithWeightsAndModulo"
    THEN 1..Min(Len(serial_number), Len(self.weights))
    ELSE DOMAIN serial_number

\* _check_digit was called on a variant other than Mod_37_36
DigitAskedOfNumericVariant == op.kind = "_check_digit" /\ op.self # Mod_37_36

\* C15 as stated: for every variant other than Mod_37_36, _check_digit of a
\* serial number with a letter at any position raises ValueError instead of
\* returning a digit.
C15_LetterAnywhereRaises ==
    (DigitAskedOfNumericVariant /\ LetterPositions(op.serial_number) # {}) =>
        op.outcome = Raise("ValueError")

\* C15, amended: for every variant other than Mod_37_36, _check_digit of a
\* serial number with a letter at a position the variant reads (any position
\* for Mod10, Mod7 and Luhn, the first 8 for S10, the first len(weights) for
\* SumProductWithWeightsAndModulo) raises ValueError instead of returning a
\* digit; letters only at positions S10 or SumProductWithWeightsAndModulo do
\* not read change nothing: the outcome is that of the positions read.
C15_LetterReadRaises ==
    DigitAskedOfNumericVariant =>
        /\ LetterPositions(op.serial_number) \cap PositionsRead(op.self, op.serial_number) # {}
                => op.outcome = Raise("ValueError")
        /\ ( /\ LetterPositions(op.serial_number) # {}
             /\ LetterPositions(op.serial_number) \cap PositionsRead(op.self, op.serial_number) = {} )
                => /\ ~op.outcome.raised
                   /\ op.outcome = check_digit_of(op.self,
                          [i \in PositionsRead(op.self, op.serial_number) |-> op.serial_number[i]])

\* C15 witness: S10 asked for the digit of nine symbols whose eighth, the last
\* one weighed, is a letter
C15_Witness ==
    /\ DigitAskedOfNumericVariant
    /\ op.self = S10
    /\ Len(op.serial_number) = 9
    /\ 8 \in LetterPositions(op.serial_number)
    /\ op.outcome = Raise("ValueError")

----------------------------------------------------------------------------
(* Properties of the additional information                                 *)

\* the capture group the extractor is bound to has a value
GroupHasValue(match_data, addition) ==
    ~IsNone(Get(match_data, addition.regex_group_name))

\* the pairs of the extractor whose matcher matches the value of its group,
\* whitespace stripped
MatchingPairs(match_data, addition) ==
    {j \in DOMAIN addition.value_matchers :
        ValueMatcher_matches(
            addition.value_matchers[j][1],
            _remove_whitespace(Val(Get(match_data, addition.regex_group_name))))}

\* the first of them in declaration order
FirstMatchingPair(match_data, addition) ==
    CHOOSE j \in MatchingPairs(match_data, addition) :
        \A k \in MatchingPairs(match_data, addition) : j <= k

\* the extractor has an Info to give: its group has a value and a pair matches
Extracts(match_data, addition) ==
    GroupHasValue(match_data, addition) /\ MatchingPairs(match_data, addition) # {}

\* the result holds, under the extractor's name, the Info of its first
\* matching pair, or nothing when the extractor has none to give
FirstMatchRecorded(result, addition) ==
    IF Extracts(result.match_data, addition)
    THEN /\ addition.name \in DOMAIN result.additional
         /\ result.additional[addition.name] =
                addition.value_matchers[FirstMatchingPair(result.match_data, addition)][2]
    ELSE addition.name \notin DOMAIN result.additional

\* C13: for each extractor whose capture group has a value and of which a
\* pair matches the whitespace-stripped value, the result's additional
\* mapping holds the extractor's name mapped to the Info of the first matching
\* pair in declaration order, whatever that Info holds, an Info with no
\* descriptive field included; with the group absent or no pair matching, the
\* name is not in the mapping.
C13_FirstExtractorMatchWins ==
    Tested =>
        \A i \in DOMAIN catalog[op.self].additional :
            FirstMatchRecorded(Val(op.outcome.v), catalog[op.self].additional[i])

====
